---- MODULE Spec2Model ----
(***************************************************************************)
(* Verification model of the PyTorch HUD access layer: the HTTP client's   *)
(* retry loop, the job classification and filtering of the HUD toolkit,    *)
(* job-name enrichment and the size-capped JSON serialiser.                *)
(***************************************************************************)
EXTENDS Integers, Sequences, FiniteSets, TLC

\* ------------------------------------------------------------------------
\* Bounds of the model
\* ------------------------------------------------------------------------
MaxRetryAttempts == 4
\* Longest job list of a grid entry that the model draws.
MaxJobs == 2
\* Longest jobNames array drawn for enrich_jobs_with_names.
MaxNames == 2
\* Texts handed to safe_json_dumps: up to DumpSmall characters, and within
\* DumpSlack characters of the length whose serialisation meets the cap.
DumpSmall == 12
DumpSlack == 8

\* ------------------------------------------------------------------------
\* Shared helpers
\* ------------------------------------------------------------------------
\* Python's None.
NoneValue == "<None>"

RECURSIVE Pow2(_)
Pow2(k) == IF k <= 0 THEN 1 ELSE 2 * Pow2(k - 1)

\* No regular expression given (None); a regular expression is its literal text.
NoRegex == <<"<None>">>

VARIABLES
    retry_attempts,   \* PyTorchHudAPI.retry_attempts
    retry_delay,      \* PyTorchHudAPI.retry_delay (in base units)
    retry_remaining,  \* the retry_remaining argument of the running _make_request
    transport,        \* responses requests.get has produced for the running call
    sleeps,           \* arguments of time.sleep during the running call
    client_pc,        \* "idle" | "request" | "returned" | "raised"
    client_result,    \* value returned by _make_request, or the error raised
    json_error_is_request_exception,
                      \* whether the installed requests library raises a
                      \* JSONDecodeError that is also a RequestException
    hud_data,         \* the grid response api.get_hud_data returns
    hud_call,         \* the toolkit operation invoked last, with its arguments
    hud_result,       \* what that operation returned
    enrich_jobs,      \* the job list handed to enrich_jobs_with_names
    enrich_names,     \* the jobNames array handed to it
    enrich_out,       \* the list it returned
    enrich_pc,        \* "idle" | "done"
    dump_data,        \* the value handed to safe_json_dumps
    dump_out,         \* the string it returned
    dump_pc,          \* "idle" | "done"
    temp_logs,        \* the temp_logs directory: absent, or its files
    dl_job_id,        \* download_log_to_file: the job_id argument
    dl_filename,      \* the file name generated for the running download
    dl_content,       \* the log text api.download_log returned
    dl_pc,            \* position of the running download_log_to_file
    dl_result,        \* what it returned, or the exception it raised
    dl_completed,     \* file names returned by the successful downloads so far
    dl_successes,     \* how many downloads have returned success so far
    jd_job_id,        \* get_job_details: the job_id argument
    jd_lookups,       \* the lookups it has attempted, in order
    jd_pc,            \* position of the running get_job_details
    jd_result,        \* the result dictionary built so far / returned
    log_files,        \* the log files on disk, by path
    log_call,         \* the log-analysis operation invoked last, with its arguments
    log_result,       \* what that operation returned
    time_call,        \* the parse_time_range call made last: argument and clock
    time_result,      \* what it returned, or the exception it raised
    ch_cache,         \* PyTorchHudAPI._clickhouse_queries_cache
    ch_call,          \* the catalog operation running, with its arguments
    ch_requests,      \* catalog requests the running operation has issued
    ch_pc,            \* position of the running catalog operation
    ch_result,        \* what it returned, or the exception it raised
    ch_callers        \* get_clickhouse_queries calls running side by side

clientVars == <<retry_attempts, retry_delay, retry_remaining, transport, sleeps,
                client_pc, client_result, json_error_is_request_exception>>

hudVars == <<hud_data, hud_call, hud_result>>

enrichVars == <<enrich_jobs, enrich_names, enrich_out, enrich_pc>>
dumpVars == <<dump_data, dump_out, dump_pc>>

downloadVars ==
    <<temp_logs, dl_job_id, dl_filename, dl_content, dl_pc, dl_result, dl_completed,
      dl_successes>>
detailsVars == <<jd_job_id, jd_lookups, jd_pc, jd_result>>
logVars == <<log_files, log_call, log_result>>
timeVars == <<time_call, time_result>>
catalogVars == <<ch_cache, ch_call, ch_requests, ch_pc, ch_result, ch_callers>>
\* The state of the log tools, the job-details lookup, the time-range parser
\* and the query catalog.
toolVars == <<downloadVars, detailsVars, logVars, timeVars, catalogVars>>

vars == <<clientVars, hudVars, enrichVars, dumpVars, toolVars>>

\* ------------------------------------------------------------------------
\* HTTP client: PyTorchHudAPI._make_request
\* ------------------------------------------------------------------------
ConnectionError == [status |-> 0, body |-> ""]
BodyTexts == {"{\"count\": 0}", "{\"count\": 1}", "<html>"}
\* What requests.get can hand back: no response at all, or a status and a body.
Responses == {ConnectionError} \cup [status : {200, 404}, body : BodyTexts]

\* requests.get raising, or response.raise_for_status() raising on 4xx/5xx.
RaisesRequestException(resp) == resp = ConnectionError \/ resp.status >= 400

\* response.json(): only the JSON texts parse.
IsJson(text) == text \in {"{\"count\": 0}", "{\"count\": 1}"}
ParseJson(text) == IF text = "{\"count\": 0}" THEN [count |-> 0] ELSE [count |-> 1]

PyTorchHudAPIError == "PyTorchHudAPIError"

ShouldRetry_OffByOne(remaining) == remaining > 1
\* client.py line 65: if retry_remaining > 0
ShouldRetry(remaining) == remaining > 0

BackoffDelay_Linear(delay, attempts, remaining) == delay * (attempts - remaining + 1)
\* client.py line 66
BackoffDelay(delay, attempts, remaining) == delay * Pow2(attempts - remaining)

\* The value of a call that returned nothing, as a parsed body would be held.
ReturnedNone == [none |-> TRUE]

MakeRequestReturn_Dropped(parsed, depth) == IF depth = 0 THEN parsed ELSE ReturnedNone
\* client.py lines 63 and 69: the parsed body is returned through every
\* level of the recursion.
MakeRequestReturn(parsed, depth) == parsed

\* A client operation calls _make_request(endpoint, params): lines 54-55.
MakeRequest ==
    /\ client_pc \in {"idle", "returned", "raised"}
    /\ retry_remaining' = retry_attempts
    /\ transport' = <<>>
    /\ sleeps' = <<>>
    /\ client_result' = NoneValue
    /\ client_pc' = "request"
    /\ UNCHANGED <<json_error_is_request_exception, retry_attempts, retry_delay>>

\* Lines 64-72: the handler of requests.exceptions.RequestException.
HandleRequestException ==
    IF ShouldRetry(retry_remaining)
    THEN /\ sleeps' = Append(sleeps,
                 BackoffDelay(retry_delay, retry_attempts, retry_remaining))
         /\ retry_remaining' = retry_remaining - 1
         /\ client_pc' = "request"
         /\ UNCHANGED client_result
    ELSE /\ client_pc' = "raised"
         /\ client_result' = PyTorchHudAPIError
         /\ UNCHANGED <<sleeps, retry_remaining>>

\* Lines 61-62 raise RequestException; lines 64-72 handle it.
RequestFails ==
    /\ client_pc = "request"
    /\ \E resp \in Responses :
        /\ RaisesRequestException(resp)
        /\ transport' = Append(transport, resp)
    /\ HandleRequestException
    /\ UNCHANGED <<json_error_is_request_exception, retry_attempts, retry_delay>>

\* Lines 61-63 succeed: the parsed body is returned.
RequestSucceeds ==
    /\ client_pc = "request"
    /\ \E resp \in Responses :
        /\ ~RaisesRequestException(resp)
        /\ IsJson(resp.body)
        /\ transport' = Append(transport, resp)
        /\ client_result' = MakeRequestReturn(ParseJson(resp.body),
                                              retry_attempts - retry_remaining)
    /\ client_pc' = "returned"
    /\ UNCHANGED <<json_error_is_request_exception, retry_attempts, retry_delay, retry_remaining, sleeps>>

\* Line 63: response.json() fails on a 2xx response.  The except clauses are
\* tried in order (lines 64 and 73).  requests from 2.27 on raises
\* requests.exceptions.JSONDecodeError, a RequestException as well as a
\* json.JSONDecodeError, so the first clause handles it like a transport
\* failure; older releases (setup.py allows requests >= 2.25.0) raise a plain
\* json.JSONDecodeError, which reaches lines 73-75.
RequestBadJson ==
    /\ client_pc = "request"
    /\ \E resp \in Responses :
        /\ ~RaisesRequestException(resp)
        /\ ~IsJson(resp.body)
        /\ transport' = Append(transport, resp)
    /\ IF json_error_is_request_exception
       THEN HandleRequestException
       ELSE /\ client_pc' = "raised"
            /\ client_result' = PyTorchHudAPIError
            /\ UNCHANGED <<retry_remaining, sleeps>>
    /\ UNCHANGED <<json_error_is_request_exception, retry_attempts, retry_delay>>

\* ------------------------------------------------------------------------
\* Dictionaries and text
\* ------------------------------------------------------------------------
\* A dictionary is a record of optional fields: <<>> is a key that is not
\* present, <<v>> a key holding v.  Text that the code searches or splits is
\* a sequence of one-character strings.
Missing == <<>>
Some(v) == <<v>>
\* key in d
Has(d, k) == d[k] # Missing
\* d.get(k, default)
Get(d, k, default) == IF d[k] = Missing THEN default ELSE d[k][1]

Min(a, b) == IF a <= b THEN a ELSE b
Max(a, b) == IF a >= b THEN a ELSE b

\* list[start:end] of Python for 0 <= start: clipped to the list.
Slice(list, start, end) ==
    IF start >= Len(list) \/ end <= start THEN <<>>
    ELSE SubSeq(list, start + 1, Min(end, Len(list)))

\* str.lower() on the model's alphabet.
LowerChar(c) ==
    CASE c = "E" -> "e" [] c = "O" -> "o" [] c = "M" -> "m" [] c = "T" -> "t"
      [] c = "S" -> "s" [] c = "W" -> "w" [] c = "R" -> "r" [] c = "F" -> "f"
      [] c = "N" -> "n" [] OTHER -> c
LowerText(text) == [i \in 1..Len(text) |-> LowerChar(text[i])]

\* re.search(pattern, text, re.IGNORECASE) for a literal pattern.
Search(pattern, text) ==
    \E i \in 1..(Len(text) - Len(pattern) + 1) :
        SubSeq(LowerText(text), i, i + Len(pattern) - 1) = LowerText(pattern)

\* text.split("/")
RECURSIVE SplitFrom(_, _, _)
SplitFrom(text, i, current) ==
    IF i > Len(text) THEN <<current>>
    ELSE IF text[i] = "/" THEN <<current>> \o SplitFrom(text, i + 1, <<>>)
    ELSE SplitFrom(text, i + 1, Append(current, text[i]))
Split(text) == SplitFrom(text, 1, <<>>)

\* ------------------------------------------------------------------------
\* HUD toolkit: enrichment (hud_data.py)
\* ------------------------------------------------------------------------
JobKeys == {"id", "name", "status", "conclusion", "failureLines", "htmlUrl"}
\* The job {} that the grid sometimes carries.
EmptyJob == [k \in JobKeys |-> Missing]
\* not job
IsEmptyJob(job) == \A k \in JobKeys : job[k] = Missing

\* A job id is an integer or some other JSON value (a string in the tests).
IntId(n) == [int |-> TRUE, v |-> n]
StrId(n) == [int |-> FALSE, v |-> n]

\* hud_data.py line 33: isinstance(job_id, int) and 0 <= job_id < len(job_names)
IsValidIndex(job_id, job_names) ==
    job_id.int /\ 0 <= job_id.v /\ job_id.v < Len(job_names)

UrlHasJobName_AtLeastFour(parts) == Len(parts) >= 4
\* hud_data.py line 41: len(parts) > 4
UrlHasJobName(parts) == Len(parts) > 4

\* hud_data.py lines 28-44: one iteration of the loop on a copy of the job.
EnrichJob(job, job_names) ==
    IF Has(job, "id") /\ IsValidIndex(job.id[1], job_names)
    THEN [job EXCEPT !.name = Some(job_names[job.id[1].v + 1])]
    ELSE IF ~Has(job, "name") /\ Has(job, "htmlUrl")
            /\ job.htmlUrl[1] # <<>> /\ UrlHasJobName(Split(job.htmlUrl[1]))
    THEN LET parts == Split(job.htmlUrl[1]) IN [job EXCEPT !.name = Some(parts[Len(parts)])]
    ELSE job

\* hud_data.py lines 15-46
enrich_jobs_with_names(jobs, job_names) ==
    [i \in 1..Len(jobs) |-> EnrichJob(jobs[i], job_names)]

\* hud_data.py lines 48-67
enrich_hud_data(data) ==
    IF Len(data.shaGrid) > 0 /\ Has(data.shaGrid[1], "jobs")
    THEN enrich_jobs_with_names(data.shaGrid[1].jobs[1], data.jobNames)
    ELSE <<>>

\* ------------------------------------------------------------------------
\* HUD toolkit: get_recent_commits_with_jobs (hud_data.py lines 734-939)
\* ------------------------------------------------------------------------
ZeroCounts == [total |-> 0, success |-> 0, failure |-> 0, pending |-> 0, skipped |-> 0]

RecentCommitsBucket_FailureLines(job) ==
    LET status == Get(job, "status", "unknown")
        conclusion == Get(job, "conclusion", "unknown")
    IN  IF Get(job, "failureLines", <<>>) # <<>> \/ conclusion = "failure" THEN "failure"
        ELSE IF conclusion = "success" THEN "success"
        ELSE IF conclusion = "skipped" THEN "skipped"
        ELSE IF status = "queued" \/ status = "in_progress" \/ conclusion = "pending"
        THEN "pending"
        ELSE "none"
\* Lines 841-855: the bucket a job is counted in ("none": no bucket).
RecentCommitsBucket(job) ==
    LET status == Get(job, "status", "unknown")
        conclusion == Get(job, "conclusion", "unknown")
    IN  IF conclusion = "success" THEN "success"
        ELSE IF conclusion = "failure" THEN "failure"
        ELSE IF conclusion = "skipped" THEN "skipped"
        ELSE IF status = "queued" \/ status = "in_progress" \/ conclusion = "pending"
        THEN "pending"
        ELSE "none"

\* Lines 836-855: the counting loop from job i on.
RECURSIVE CountJobs(_, _, _)
CountJobs(jobs, i, counts) ==
    IF i > Len(jobs) THEN counts
    ELSE IF IsEmptyJob(jobs[i]) THEN CountJobs(jobs, i + 1, counts)
    ELSE LET bucket == RecentCommitsBucket(jobs[i])
             counted == [counts EXCEPT !.total = @ + 1]
         IN  CountJobs(jobs, i + 1,
                 IF bucket = "none" THEN counted
                 ELSE [counted EXCEPT ![bucket] = @ + 1])

CommitStatus_PendingFirst(counts) ==
    IF counts.pending > 0 THEN "pending"
    ELSE IF counts.failure > 0 THEN "red"
    ELSE IF counts.success > 0 THEN "green"
    ELSE "unknown"
\* Lines 857-863
CommitStatus(counts) ==
    IF counts.failure > 0 THEN "red"
    ELSE IF counts.pending > 0 THEN "pending"
    ELSE IF counts.success > 0 THEN "green"
    ELSE "unknown"

\* Lines 873-882: the include flags.
PassesStatusFilter(job, args) ==
    LET status == Get(job, "status", "unknown")
        conclusion == Get(job, "conclusion", "unknown")
    IN  IF conclusion = "success" /\ args.include_success THEN TRUE
        ELSE IF conclusion = "failure" /\ args.include_failures THEN TRUE
        ELSE (status = "queued" \/ status = "in_progress" \/ conclusion = "pending")
             /\ args.include_pending

\* Lines 885-888: a regex of None or "" is not compiled and filters nothing.
PassesNameFilter(job, args) ==
    (args.job_name_filter_regex # NoRegex /\ args.job_name_filter_regex # <<>>)
        => Search(args.job_name_filter_regex, Get(job, "name", <<>>))

\* Lines 891-898
PassesFailureLineFilter(job, args) ==
    (/\ args.failure_line_filter_regex # NoRegex
     /\ args.failure_line_filter_regex # <<>>
     /\ Has(job, "failureLines"))
        => \E k \in 1..Len(job.failureLines[1]) :
               Search(args.failure_line_filter_regex, job.failureLines[1][k])

\* Lines 872-902
IncludeJob(job, args) ==
    /\ PassesStatusFilter(job, args)
    /\ PassesNameFilter(job, args)
    /\ PassesFailureLineFilter(job, args)

\* Lines 866-906: the jobs attached to a commit (Missing: no "jobs" key).
AttachedJobs(original_jobs, job_names, args) ==
    IF args.include_success \/ args.include_pending \/ args.include_failures
    THEN LET all_jobs == enrich_jobs_with_names(original_jobs, job_names)
             filtered_jobs == SelectSeq(all_jobs, LAMBDA job : IncludeJob(job, args))
         IN  IF filtered_jobs # <<>> THEN Some(filtered_jobs) ELSE Missing
    ELSE Missing

CountedJobs_AfterFilter(original_jobs, job_names, args) ==
    IF args.include_success \/ args.include_pending \/ args.include_failures
    THEN SelectSeq(enrich_jobs_with_names(original_jobs, job_names),
                   LAMBDA job : IncludeJob(job, args))
    ELSE original_jobs
\* Line 836: the counting loop runs over the commit's original jobs.
CountedJobs(original_jobs, job_names, args) == original_jobs

\* Lines 806-909: one commit of the grid.
CommitInfo(commit, job_names, args) ==
    LET original_jobs == Get(commit, "jobs", <<>>)
        counts == CountJobs(CountedJobs(original_jobs, job_names, args), 1, ZeroCounts)
    IN  [sha |-> Get(commit, "sha", <<>>),
         job_counts |-> counts,
         status |-> CommitStatus(counts),
         jobs |-> AttachedJobs(original_jobs, job_names, args)]

\* Lines 801-804: the loop stops once per_page commits are collected.
ProcessedCommits(sha_grid, per_page) ==
    SubSeq(sha_grid, 1, Min(Len(sha_grid), Max(per_page, 0)))

get_recent_commits_with_jobs(data, args) ==
    LET processed == ProcessedCommits(data.shaGrid, args.per_page)
        result_commits ==
            [i \in 1..Len(processed) |-> CommitInfo(processed[i], data.jobNames, args)]
    IN  [commits |-> result_commits,
         pagination |-> [page |-> args.page, per_page |-> args.per_page,
                         total_commits |-> Len(data.shaGrid),
                         returned_commits |-> Len(result_commits)],
         filters |-> [include_success |-> args.include_success,
                      include_pending |-> args.include_pending,
                      include_failures |-> args.include_failures,
                      job_name_filter_regex |-> args.job_name_filter_regex,
                      failure_line_filter_regex |-> args.failure_line_filter_regex]]

\* ------------------------------------------------------------------------
\* HUD toolkit: get_job_summary (hud_data.py lines 158-242)
\* ------------------------------------------------------------------------
\* Lines 200-218
JobSummaryBucket(job) ==
    LET status == Get(job, "status", "unknown")
        conclusion == Get(job, "conclusion", "unknown")
    IN  IF conclusion = "success" THEN "success"
        ELSE IF conclusion = "failure" THEN "failure"
        ELSE IF conclusion = "skipped" THEN "skipped"
        ELSE IF status = "queued" THEN "queued"
        ELSE IF status = "in_progress" THEN "in_progress"
        ELSE IF conclusion = "pending" THEN "pending"
        ELSE "none"

\* Lines 199-218: the counting loop from job i on.
RECURSIVE SummaryCounts(_, _, _)
SummaryCounts(jobs, i, counts) ==
    IF i > Len(jobs) THEN counts
    ELSE LET bucket == JobSummaryBucket(jobs[i])
             counted == [counts EXCEPT !.total = @ + 1]
         IN  SummaryCounts(jobs, i + 1,
                 IF bucket = "none" THEN counted
                 ELSE [counted EXCEPT ![bucket] = @ + 1])

\* The first grid entry's jobs, when the grid has them (lines 196-197).
FirstCommitJobs(data) ==
    IF Len(data.shaGrid) > 0 /\ Has(data.shaGrid[1], "jobs")
    THEN data.shaGrid[1].jobs[1]
    ELSE <<>>

get_job_summary(data) ==
    [status_counts |->
        SummaryCounts(FirstCommitJobs(data), 1,
            [success |-> 0, failure |-> 0, pending |-> 0, skipped |-> 0,
             queued |-> 0, in_progress |-> 0, total |-> 0])]

\* ------------------------------------------------------------------------
\* HUD toolkit: get_failure_details (hud_data.py lines 372-492)
\* ------------------------------------------------------------------------
\* Lines 420-447
FailureDetailsBucket(job) ==
    LET status == Get(job, "status", "unknown")
        conclusion == Get(job, "conclusion", "unknown")
    IN  IF conclusion = "success" THEN "success"
        ELSE IF conclusion = "failure" THEN "failure"
        ELSE IF conclusion = "skipped" THEN "skipped"
        ELSE IF status = "queued" THEN "queued"
        ELSE IF status = "in_progress" THEN "in_progress"
        ELSE IF conclusion = "pending" \/ status = "pending" THEN "pending"
        ELSE "none"

\* Lines 419-447: the counting loop from job i on.
RECURSIVE FailureCounts(_, _, _)
FailureCounts(jobs, i, counts) ==
    IF i > Len(jobs) THEN counts
    ELSE LET bucket == FailureDetailsBucket(jobs[i])
         IN  FailureCounts(jobs, i + 1,
                 IF bucket = "none" THEN counts
                 ELSE [counts EXCEPT ![bucket] = @ + 1])

\* Lines 466-472
BuildStatus(counts) ==
    IF counts.failure > 0 THEN "failing"
    ELSE IF counts.pending > 0 \/ counts.in_progress > 0 \/ counts.queued > 0 THEN "pending"
    ELSE IF counts.success > 0 THEN "passing"
    ELSE "unknown"

\* Lines 352-353 and 476-477
TotalPages_RoundedDown(total_items, per_page) ==
    IF per_page > 0 THEN total_items \div per_page ELSE 0
TotalPages(total_items, per_page) ==
    IF per_page > 0 THEN (total_items + per_page - 1) \div per_page ELSE 0

get_failure_details(data, args) ==
    LET enriched_jobs == enrich_hud_data(data)
        counts == FailureCounts(enriched_jobs, 1,
            [total |-> Len(enriched_jobs), success |-> 0, failure |-> 0, pending |-> 0,
             in_progress |-> 0, queued |-> 0, skipped |-> 0])
        failed_jobs == SelectSeq(enriched_jobs,
                           LAMBDA job : FailureDetailsBucket(job) = "failure")
        start_idx == (args.page - 1) * args.per_page
    IN  [build_status |-> BuildStatus(counts),
         job_status_counts |-> counts,
         failed_jobs |-> Slice(failed_jobs, start_idx, start_idx + args.per_page),
         total_failures |-> Len(failed_jobs),
         pagination |-> [page |-> args.page, per_page |-> args.per_page,
                         total_items |-> Len(failed_jobs),
                         total_pages |-> TotalPages(Len(failed_jobs), args.per_page)]]

\* ------------------------------------------------------------------------
\* HUD toolkit: get_workflow_summary (hud_data.py lines 541-650)
\* ------------------------------------------------------------------------
\* Lines 570-575: the workflow a job belongs to (Missing: none).
WorkflowOf(job) ==
    LET html_url == Get(job, "htmlUrl", <<>>)
        parts == Split(html_url)
    IN  IF html_url # <<>> /\ Len(parts) > 4 THEN Some(parts[Len(parts) - 2]) ELSE Missing

\* Lines 595-608
WorkflowBucket(job) ==
    LET status == Get(job, "status", "unknown")
        conclusion == Get(job, "conclusion", "unknown")
    IN  IF conclusion = "success" THEN "success"
        ELSE IF conclusion = "failure" THEN "failure"
        ELSE IF conclusion = "skipped" THEN "skipped"
        ELSE IF status = "in_progress" THEN "in_progress"
        ELSE IF conclusion = "pending" THEN "pending"
        ELSE "none"

\* Lines 569-608: the loop from job i on, for the workflow workflow_id.
RECURSIVE WorkflowCounts(_, _, _, _)
WorkflowCounts(jobs, i, workflow_id, counts) ==
    IF i > Len(jobs) THEN counts
    ELSE IF WorkflowOf(jobs[i]) # Some(workflow_id)
    THEN WorkflowCounts(jobs, i + 1, workflow_id, counts)
    ELSE LET bucket == WorkflowBucket(jobs[i])
             counted == [counts EXCEPT !.total_jobs = @ + 1]
         IN  WorkflowCounts(jobs, i + 1, workflow_id,
                 IF bucket = "none" THEN counted
                 ELSE [counted EXCEPT ![bucket] = @ + 1])

get_workflow_summary(data) ==
    LET enriched_jobs == enrich_hud_data(data)
        ids == {WorkflowOf(enriched_jobs[i])[1] :
                    i \in {j \in 1..Len(enriched_jobs) : WorkflowOf(enriched_jobs[j]) # Missing}}
    IN  [workflows |->
            [workflow_id \in ids |->
                WorkflowCounts(enriched_jobs, 1, workflow_id,
                    [name |-> workflow_id, total_jobs |-> 0, success |-> 0, failure |-> 0,
                     skipped |-> 0, pending |-> 0, in_progress |-> 0])]]

\* ------------------------------------------------------------------------
\* Front end: get_recent_commit_status (mcp_server.py lines 1066-1213)
\* ------------------------------------------------------------------------
\* Lines 1148-1159
CommitStatusBucket(job) ==
    LET status == Get(job, "status", "unknown")
        conclusion == Get(job, "conclusion", "unknown")
    IN  IF conclusion = "success" THEN "success"
        ELSE IF conclusion = "failure" THEN "failure"
        ELSE IF conclusion = "skipped" THEN "skipped"
        ELSE IF status = "queued" \/ status = "in_progress" \/ conclusion = "pending"
        THEN "pending"
        ELSE "none"

\* Lines 1143-1162: the counting loop from job i on; total is the sum.
RECURSIVE StatusCounts(_, _, _)
StatusCounts(jobs, i, counts) ==
    IF i > Len(jobs)
    THEN [counts EXCEPT !.total = counts.success + counts.failure
                                   + counts.pending + counts.skipped]
    ELSE IF IsEmptyJob(jobs[i]) THEN StatusCounts(jobs, i + 1, counts)
    ELSE LET bucket == CommitStatusBucket(jobs[i])
         IN  StatusCounts(jobs, i + 1,
                 IF bucket = "none" THEN counts
                 ELSE [counts EXCEPT ![bucket] = @ + 1])

\* Lines 1165-1171
OverallStatus(counts, include_pending) ==
    IF counts.failure > 0 THEN "red"
    ELSE IF counts.pending > 0 /\ include_pending THEN "pending"
    ELSE IF counts.success > 0 THEN "green"
    ELSE "unknown"

get_recent_commit_status(data, args) ==
    LET sha_grid == Slice(data.shaGrid, 0, args.count)
        commits ==
            [i \in 1..Len(sha_grid) |->
                LET counts == StatusCounts(Get(sha_grid[i], "jobs", <<>>), 1, ZeroCounts)
                IN  [sha |-> Get(sha_grid[i], "sha", <<>>),
                     job_counts |-> counts,
                     status |-> OverallStatus(counts, args.include_pending)]]
    IN  [commits |-> commits,
         summary |-> [total_commits |-> Len(commits)]]

\* ------------------------------------------------------------------------
\* HUD toolkit: get_filtered_jobs (hud_data.py lines 244-370)
\* ------------------------------------------------------------------------
MatchesStatus_FailureLines(job, status) ==
    IF status = "failure"
    THEN Get(job, "conclusion", NoneValue) = "failure" \/ Get(job, "failureLines", <<>>) # <<>>
    ELSE ~(Get(job, "conclusion", NoneValue) # status /\ Get(job, "status", NoneValue) # status)
\* Lines 290-300: the status filter, when one is given.
MatchesStatus(job, status) ==
    IF status = "failure"
    THEN Get(job, "conclusion", NoneValue) = "failure"
    ELSE ~(Get(job, "conclusion", NoneValue) # status /\ Get(job, "status", NoneValue) # status)

\* workflow.lower() in html_url.lower()
Contains(needle, text) == Search(needle, text)

\* Lines 303-310: the workflow filter, when one is given.
MatchesWorkflow(job, workflow) ==
    LET html_url == Get(job, "htmlUrl", <<>>)
    IN  html_url # <<>> /\ Contains(workflow, html_url)

\* Lines 313-329: the job name filter, when one is given.
MatchesJobName(job, job_name_pattern) ==
    LET job_name == Get(job, "name", <<>>)
        html_url == Get(job, "htmlUrl", <<>>)
        parts == Split(html_url)
    IN  IF job_name # <<>> THEN Search(job_name_pattern, job_name)
        ELSE IF html_url # <<>>
        THEN Len(parts) > 4 => Search(job_name_pattern, parts[Len(parts)])
        ELSE FALSE

\* Lines 287-332: arguments that are None or empty filter nothing.
FilteredJobsInclude(job, args) ==
    /\ (args.status # NoneValue /\ args.status # "") => MatchesStatus(job, args.status)
    /\ (args.workflow # NoRegex /\ args.workflow # <<>>) => MatchesWorkflow(job, args.workflow)
    /\ (args.job_name_pattern # NoRegex /\ args.job_name_pattern # <<>>)
           => MatchesJobName(job, args.job_name_pattern)

get_filtered_jobs(data, args) ==
    LET enriched_jobs == enrich_hud_data(data)
        filtered_jobs == SelectSeq(enriched_jobs, LAMBDA job : FilteredJobsInclude(job, args))
        total_jobs == Len(filtered_jobs)
        start_idx == (args.page - 1) * args.per_page
    IN  [jobs |-> Slice(filtered_jobs, start_idx, start_idx + args.per_page),
         pagination |-> [page |-> args.page, per_page |-> args.per_page,
                         total_items |-> total_jobs,
                         total_pages |-> TotalPages(total_jobs, args.per_page)],
         filters |-> [status |-> args.status, workflow |-> args.workflow,
                      job_name_pattern |-> args.job_name_pattern]]

\* ------------------------------------------------------------------------
\* Front end: safe_json_dumps (mcp_server.py lines 35-72)
\* ------------------------------------------------------------------------
\* Line 36
MAX_RESPONSE_SIZE == 10 * 1024

\* Lines 57-64
warning_msg ==
  <<
    "\n", "\n", "<", "E", "R", "R", "O", "R", ":", " ", "R", "E", "S", "P", "O", "N",
    "S", "E", " ", "T", "R", "U", "N", "C", "A", "T", "E", "D", ">", "\n", "T", "h",
    "e", " ", "r", "e", "s", "p", "o", "n", "s", "e", " ", "e", "x", "c", "e", "e",
    "d", "s", " ", "t", "h", "e", " ", "m", "a", "x", "i", "m", "u", "m", " ", "s",
    "i", "z", "e", " ", "l", "i", "m", "i", "t", ".", " ", "P", "l", "e", "a", "s",
    "e", " ", "u", "s", "e", " ", "m", "o", "r", "e", " ", "s", "p", "e", "c", "i",
    "f", "i", "c", " ", "p", "a", "r", "a", "m", "e", "t", "e", "r", "s", ":", "\n",
    "-", " ", "R", "e", "d", "u", "c", "e", " ", "'", "p", "e", "r", "_", "p", "a",
    "g", "e", "'", " ", "v", "a", "l", "u", "e", " ", "(", "t", "r", "y", " ", "3",
    "-", "5", " ", "i", "n", "s", "t", "e", "a", "d", ")", "\n", "-", " ", "U", "s",
    "e", " ", "t", "h", "e", " ", "'", "f", "i", "e", "l", "d", "s", "'", " ", "p",
    "a", "r", "a", "m", "e", "t", "e", "r", " ", "t", "o", " ", "r", "e", "q", "u",
    "e", "s", "t", " ", "o", "n", "l", "y", " ", "n", "e", "e", "d", "e", "d", " ",
    "d", "a", "t", "a", "\n", "-", " ", "F", "o", "r", " ", "f", "a", "i", "l", "u",
    "r", "e", " ", "d", "e", "t", "a", "i", "l", "s", ",", " ", "u", "s", "e", " ",
    "'", "i", "n", "c", "l", "u", "d", "e", "_", "l", "i", "n", "e", "s", "=", "s",
    "u", "m", "m", "a", "r", "y", "'", " ", "o", "r", " ", "'", "i", "n", "c", "l",
    "u", "d", "e", "_", "l", "i", "n", "e", "s", "=", "n", "o", "n", "e", "'", "\n",
    "-", " ", "C", "o", "n", "s", "i", "d", "e", "r", " ", "u", "s", "i", "n", "g",
    " ", "s", "p", "e", "c", "i", "a", "l", "i", "z", "e", "d", " ", "e", "n", "d",
    "p", "o", "i", "n", "t", "s", " ", "l", "i", "k", "e", " ", "g", "e", "t", "_",
    "c", "o", "m", "m", "i", "t", "_", "s", "u", "m", "m", "a", "r", "y", " ", "o",
    "r", " ", "g", "e", "t", "_", "j", "o", "b", "_", "s", "u", "m", "m", "a", "r", "y"
  >>

JsonString(text) == [kind |-> "str", text |-> text]
JsonList(items) == [kind |-> "list", items |-> items]

\* json.dumps of one character of a string: quotes, backslashes and newlines
\* are escaped.
EscapeChar(c) ==
    CASE c = "\"" -> <<"\\", "\"">>
      [] c = "\\" -> <<"\\", "\\">>
      [] c = "\n" -> <<"\\", "n">>
      [] OTHER -> <<c>>
NeedsEscape(c) == c \in {"\"", "\\", "\n"}

\* The characters up to position last, escaped one by one; the characters
\* after the last one that needs escaping are copied as they are.
RECURSIVE EscapeFrom(_, _, _)
EscapeFrom(text, i, last) ==
    IF i > last THEN <<>> ELSE EscapeChar(text[i]) \o EscapeFrom(text, i + 1, last)
Escape(text) ==
    LET escaped == {i \in 1..Len(text) : NeedsEscape(text[i])}
        last == IF escaped = {} THEN 0
                ELSE CHOOSE i \in escaped : \A k \in escaped : k <= i
    IN  EscapeFrom(text, 1, last) \o SubSeq(text, last + 1, Len(text))

Spaces(n) == [i \in 1..n |-> " "]

\* json.dumps(value, indent=indent) at nesting depth level.
RECURSIVE JsonDumpsAt(_, _, _)
RECURSIVE JsonItemsFrom(_, _, _, _)
JsonItemsFrom(items, i, indent, level) ==
    Spaces(indent * level) \o JsonDumpsAt(items[i], indent, level)
        \o (IF i = Len(items) THEN <<>>
            ELSE <<",", "\n">> \o JsonItemsFrom(items, i + 1, indent, level))
JsonDumpsAt(value, indent, level) ==
    IF value.kind = "str" THEN <<"\"">> \o Escape(value.text) \o <<"\"">>
    ELSE IF value.items = <<>> THEN <<"[", "]">>
    ELSE <<"[", "\n">> \o JsonItemsFrom(value.items, 1, indent, level + 1)
             \o <<"\n">> \o Spaces(indent * level) \o <<"]">>
JsonDumps(value, indent) == JsonDumpsAt(value, indent, 0)

TruncSize_WholeCap(max_size) == max_size
\* Lines 67-69
TruncSize(max_size) ==
    IF max_size - Len(warning_msg) < 200 THEN 200 ELSE max_size - Len(warning_msg)

\* Lines 50-72
safe_json_dumps(data, indent, max_size) ==
    LET json_str == JsonDumps(data, indent)
    IN  IF Len(json_str) <= max_size THEN json_str
        ELSE Slice(json_str, 0, TruncSize(max_size)) \o warning_msg

\* ------------------------------------------------------------------------
\* Grid responses the model draws
\* ------------------------------------------------------------------------
T_test == <<"t", "e", "s", "t">>
T_lint == <<"l", "i", "n", "t">>
T_Err == <<"E", "r", "r">>
T_OOM == <<"O", "O", "M">>
\* A job page URL: .../<workflow>/<run>/<job>, six segments.
UrlLong == <<"h", ":", "/", "/", "g", "/", "w", "1", "/", "r", "/", "j", "7">>
UrlOther == <<"h", ":", "/", "/", "g", "/", "w", "2", "/", "r", "/", "t", "e", "s", "t">>
\* A URL of two segments.
UrlShort == <<"g", "/", "j">>

JobNames == <<T_test, T_lint>>

Conclusions == {"success", "failure", "skipped", "pending", "cancelled"}
Statuses == {"completed", "queued", "in_progress"}

Options(S) == {Missing} \cup {Some(v) : v \in S}

JobLists(D) == UNION {[1..n -> D] : n \in 0..MaxJobs}

\* Job i of a grid entry is the job of column i: its id indexes jobNames.
WithColumnIds(jobs) ==
    [i \in 1..Len(jobs) |->
        IF IsEmptyJob(jobs[i]) THEN jobs[i] ELSE [jobs[i] EXCEPT !.id = Some(IntId(i - 1))]]

Commit(sha, jobs) == [sha |-> Some(sha), jobs |-> Some(jobs)]

\* The grid entry of test_recent_commit_status_parsing.py lines 37-48.
FixtureCommit ==
    LET J(n, conclusion, lines) ==
            [id |-> Some(StrId(n)), name |-> Missing, status |-> Some("completed"),
             conclusion |-> Some(conclusion), failureLines |-> lines, htmlUrl |-> Missing]
    IN  Commit(<<"e", "6">>,
               << J(1, "failure", Missing), J(2, "success", Some(<<T_Err>>)),
                  J(3, "failure", Missing), J(4, "success", Some(<<>>)),
                  J(5, "success", Missing) >>)

\* Grids of one entry with a drawn job list, alone or followed by the fixture
\* entry, and the grid without entries.
Grids(D) ==
    {[shaGrid |-> <<>>, jobNames |-> JobNames]}
    \cup {[shaGrid |-> <<Commit(<<"a", "1">>, jobs)>>, jobNames |-> JobNames] :
            jobs \in JobLists(D)}
    \cup {[shaGrid |-> <<Commit(<<"a", "1">>, jobs), FixtureCommit>>, jobNames |-> JobNames] :
            jobs \in {l \in JobLists(D) : Len(l) <= 1}}

\* Jobs for the summaries: every status and conclusion, with and without
\* failure lines, with and without a job page URL.
SummaryJobs ==
    {EmptyJob} \cup
    {[id |-> Missing, name |-> Missing, status |-> Some(s), conclusion |-> c,
      failureLines |-> x[1], htmlUrl |-> x[2]] :
        s \in Statuses, c \in Options(Conclusions),
        x \in {<<Missing, Some(UrlLong)>>, <<Some(<<T_Err>>), Some(UrlLong)>>,
               <<Some(<<T_Err>>), Missing>>}}

\* per_page of get_recent_commits_with_jobs and get_failure_details.
DefaultPerPage == 10

NoCall == [op |-> "none"]
NoResult == [op |-> "none"]

DefaultFilters ==
    [include_success : {FALSE}, include_pending : {FALSE}, include_failures : {FALSE},
     job_name_filter_regex : {NoRegex}, failure_line_filter_regex : {NoRegex},
     page : {1}, per_page : {1, DefaultPerPage}]

\* ------------------------------------------------------------------------
\* Toolkit operations as steps: the grid fetch and the whole handler
\* ------------------------------------------------------------------------
CallRecentCommitsWithJobs(ArgSet) ==
    /\ hud_call = NoCall
    /\ \E args \in ArgSet :
        /\ hud_call' = [op |-> "get_recent_commits_with_jobs", args |-> args]
        /\ hud_result' = get_recent_commits_with_jobs(hud_data, args)
    /\ UNCHANGED <<hud_data, clientVars, enrichVars, dumpVars, toolVars>>

CallJobSummary ==
    /\ hud_call = NoCall
    /\ hud_call' = [op |-> "get_job_summary"]
    /\ hud_result' = get_job_summary(hud_data)
    /\ UNCHANGED <<hud_data, clientVars, enrichVars, dumpVars, toolVars>>

CallWorkflowSummary ==
    /\ hud_call = NoCall
    /\ hud_call' = [op |-> "get_workflow_summary"]
    /\ hud_result' = get_workflow_summary(hud_data)
    /\ UNCHANGED <<hud_data, clientVars, enrichVars, dumpVars, toolVars>>

CallFailureDetails ==
    /\ hud_call = NoCall
    /\ \E args \in [page : {1}, per_page : {DefaultPerPage}] :
        /\ hud_call' = [op |-> "get_failure_details", args |-> args]
        /\ hud_result' = get_failure_details(hud_data, args)
    /\ UNCHANGED <<hud_data, clientVars, enrichVars, dumpVars, toolVars>>

CallRecentCommitStatus ==
    /\ hud_call = NoCall
    /\ \E args \in [count : {1, 20}, include_pending : BOOLEAN] :
        /\ hud_call' = [op |-> "get_recent_commit_status", args |-> args]
        /\ hud_result' = get_recent_commit_status(hud_data, args)
    /\ UNCHANGED <<hud_data, clientVars, enrichVars, dumpVars, toolVars>>

\* The handler has answered; the front end waits for the next invocation.
Respond ==
    /\ hud_call # NoCall
    /\ hud_call' = NoCall
    /\ hud_result' = NoResult
    /\ UNCHANGED <<hud_data, clientVars, enrichVars, dumpVars, toolVars>>

CallRecentCommitsDefault == CallRecentCommitsWithJobs(DefaultFilters)

ClientIdle ==
    /\ retry_attempts = 3
    /\ retry_delay = 1
    /\ retry_remaining = NoneValue
    /\ transport = <<>>
    /\ sleeps = <<>>
    /\ client_pc = "idle"
    /\ client_result = NoneValue
    /\ json_error_is_request_exception = TRUE

HudIdle ==
    /\ hud_data = [shaGrid |-> <<>>, jobNames |-> <<>>]
    /\ hud_call = NoCall
    /\ hud_result = NoResult

EnrichIdle ==
    /\ enrich_jobs = <<>>
    /\ enrich_names = <<>>
    /\ enrich_out = <<>>
    /\ enrich_pc = "idle"

DumpIdle ==
    /\ dump_data = JsonList(<<>>)
    /\ dump_out = <<>>
    /\ dump_pc = "idle"

\* No file name generated yet.
NoFile == [job_id |-> 0, stamp |-> 0]
\* The working directory without a temp_logs entry.
NoTempLogs == [kind |-> "absent", files |-> {}]

DownloadIdle ==
    /\ temp_logs = NoTempLogs
    /\ dl_job_id = 0
    /\ dl_filename = NoFile
    /\ dl_content = <<>>
    /\ dl_pc = "idle"
    /\ dl_result = NoResult
    /\ dl_completed = {}
    /\ dl_successes = 0

DetailsIdle ==
    /\ jd_job_id = 0
    /\ jd_lookups = <<>>
    /\ jd_pc = "idle"
    /\ jd_result = NoResult

\* The one log file on disk: its path and its lines.
NoLogFile == [path |-> "none", lines |-> <<>>]

LogIdle ==
    /\ log_files = NoLogFile
    /\ log_call = NoCall
    /\ log_result = NoResult

TimeIdle ==
    /\ time_call = NoCall
    /\ time_result = NoResult

CatalogIdle ==
    /\ ch_cache = Missing
    /\ ch_call = NoCall
    /\ ch_requests = 0
    /\ ch_pc = "idle"
    /\ ch_result = NoResult
    /\ ch_callers = <<>>

\* Every part of the system but the named one is idle.
IdleExcept(part) ==
    /\ IF part = "client" THEN TRUE ELSE ClientIdle
    /\ IF part = "hud" THEN TRUE ELSE HudIdle
    /\ IF part = "enrich" THEN TRUE ELSE EnrichIdle
    /\ IF part = "dump" THEN TRUE ELSE DumpIdle
    /\ IF part = "download" THEN TRUE ELSE DownloadIdle
    /\ IF part = "details" THEN TRUE ELSE DetailsIdle
    /\ IF part = "log" THEN TRUE ELSE LogIdle
    /\ IF part = "time" THEN TRUE ELSE TimeIdle
    /\ IF part = "catalog" THEN TRUE ELSE CatalogIdle

\* The frame of an action of the named part: every other part is unchanged.
Frame(part) ==
    /\ IF part = "client" THEN TRUE ELSE UNCHANGED clientVars
    /\ IF part = "hud" THEN TRUE ELSE UNCHANGED hudVars
    /\ IF part = "enrich" THEN TRUE ELSE UNCHANGED enrichVars
    /\ IF part = "dump" THEN TRUE ELSE UNCHANGED dumpVars
    /\ IF part = "download" THEN TRUE ELSE UNCHANGED downloadVars
    /\ IF part = "details" THEN TRUE ELSE UNCHANGED detailsVars
    /\ IF part = "log" THEN TRUE ELSE UNCHANGED logVars
    /\ IF part = "time" THEN TRUE ELSE UNCHANGED timeVars
    /\ IF part = "catalog" THEN TRUE ELSE UNCHANGED catalogVars

ClientInit ==
    /\ retry_attempts \in 0..MaxRetryAttempts
    /\ retry_delay \in {1, 2}
    /\ retry_remaining = NoneValue
    /\ transport = <<>>
    /\ sleeps = <<>>
    /\ client_pc = "idle"
    /\ client_result = NoneValue
    /\ json_error_is_request_exception \in BOOLEAN

ClientNext ==
    \/ MakeRequest /\ UNCHANGED <<hudVars, enrichVars, dumpVars, toolVars>>
    \/ RequestFails /\ UNCHANGED <<hudVars, enrichVars, dumpVars, toolVars>>
    \/ RequestSucceeds /\ UNCHANGED <<hudVars, enrichVars, dumpVars, toolVars>>
    \/ RequestBadJson /\ UNCHANGED <<hudVars, enrichVars, dumpVars, toolVars>>

\* The client alone.
Init == ClientInit /\ IdleExcept("client")
Next == ClientNext
Spec == Init /\ [][Next]_vars

\* The summaries over drawn grids.
InitSummaries ==
    /\ IdleExcept("hud")
    /\ hud_data \in Grids(SummaryJobs)
    /\ hud_call = NoCall
    /\ hud_result = NoResult
NextSummaries ==
    \/ CallRecentCommitsDefault
    \/ CallJobSummary
    \/ CallWorkflowSummary
    \/ CallFailureDetails
    \/ CallRecentCommitStatus
    \/ Respond
SpecSummaries == InitSummaries /\ [][NextSummaries]_vars

\* Jobs for the attachment filters: concluded, running and cancelled jobs, and
\* a job reported as running with a conclusion already set, with every shape
\* of failureLines; the column gives the id and so the name.
AttachJobs ==
    {[id |-> Missing, name |-> Missing, status |-> Some(x[1]), conclusion |-> x[2],
      failureLines |-> lines, htmlUrl |-> Missing] :
        x \in {<<"completed", Some("success")>>, <<"completed", Some("failure")>>,
               <<"in_progress", Missing>>, <<"completed", Some("cancelled")>>,
               <<"in_progress", Some("success")>>},
        lines \in {Missing, Some(<<>>), Some(<<T_Err>>), Some(<<T_OOM>>)}}

P_test == <<"T", "E", "S", "T">>
P_err == <<"e", "r", "r">>

AllFilters ==
    [include_success : BOOLEAN, include_pending : BOOLEAN, include_failures : BOOLEAN,
     job_name_filter_regex : {NoRegex, P_test},
     failure_line_filter_regex : {NoRegex, P_err},
     page : {1}, per_page : {DefaultPerPage}]

CallRecentCommitsFiltered == CallRecentCommitsWithJobs(AllFilters)

InitAttach ==
    /\ IdleExcept("hud")
    /\ hud_data \in {[g EXCEPT !.shaGrid =
                        [i \in 1..Len(g.shaGrid) |->
                            [g.shaGrid[i] EXCEPT !.jobs = Some(WithColumnIds(@[1]))]]] :
                     g \in Grids(AttachJobs)}
    /\ hud_call = NoCall
    /\ hud_result = NoResult
NextAttach == CallRecentCommitsFiltered \/ Respond
SpecAttach == InitAttach /\ [][NextAttach]_vars

\* Jobs for get_filtered_jobs: named by jobNames, by the job page URL, or
\* not at all.
FilteredJobs ==
    {[id |-> x[1], name |-> Missing, status |-> Some(y[1]), conclusion |-> y[2],
      failureLines |-> lines, htmlUrl |-> x[2]] :
        x \in {<<Some(IntId(1)), Some(UrlLong)>>, <<Missing, Some(UrlOther)>>,
               <<Missing, Some(UrlShort)>>, <<Missing, Missing>>},
        y \in {<<"completed", Some("success")>>, <<"completed", Some("failure")>>,
               <<"in_progress", Missing>>},
        lines \in {Missing, Some(<<T_Err>>)}}

P_w1 == <<"W", "1">>

FilteredJobsArgs ==
    [status : {NoneValue, "failure", "success", "in_progress"},
     workflow : {NoRegex, P_w1},
     job_name_pattern : {NoRegex, P_test},
     page : {1, 2}, per_page : {1, 20}]

CallFilteredJobs ==
    /\ hud_call = NoCall
    /\ \E args \in FilteredJobsArgs :
        /\ hud_call' = [op |-> "get_filtered_jobs", args |-> args]
        /\ hud_result' = get_filtered_jobs(hud_data, args)
    /\ UNCHANGED <<hud_data, clientVars, enrichVars, dumpVars, toolVars>>

InitFiltered ==
    /\ IdleExcept("hud")
    /\ hud_data \in Grids(FilteredJobs)
    /\ hud_call = NoCall
    /\ hud_result = NoResult
NextFiltered == CallFilteredJobs \/ Respond
SpecFiltered == InitFiltered /\ [][NextFiltered]_vars

\* enrich_jobs_with_names over drawn job lists and jobNames arrays.
UrlFour == <<"g", "/", "w", "/", "r", "/", "j">>
UrlFive == <<"h", "/", "g", "/", "w", "/", "r", "/", "j", "7">>
T_job == <<"j", "o", "b">>

EnrichJobs ==
    [id : {Missing, Some(IntId(-1)), Some(IntId(0)), Some(IntId(1)), Some(StrId(0))},
     name : {Missing, Some(T_job)},
     status : {Some("completed")}, conclusion : {Some("success")},
     failureLines : {Missing},
     htmlUrl : {Missing, Some(<<>>), Some(UrlFour), Some(UrlFive)}]

NameArrays == {SubSeq(<<T_test, T_lint, T_job, T_test>>, 1, n) : n \in 0..MaxNames}

\* hud_data.py line 29: each job is copied before it is changed, so the
\* caller's list holds the jobs it held before.
InputAfterEnrich(jobs, enriched) == jobs

CallEnrichJobsWithNames ==
    /\ enrich_pc = "idle"
    /\ enrich_out' = enrich_jobs_with_names(enrich_jobs, enrich_names)
    /\ enrich_jobs' = InputAfterEnrich(enrich_jobs,
                                       enrich_jobs_with_names(enrich_jobs, enrich_names))
    /\ enrich_pc' = "done"
    /\ UNCHANGED <<enrich_names, clientVars, hudVars, dumpVars, toolVars>>

InitEnrich ==
    /\ IdleExcept("enrich")
    /\ enrich_jobs \in JobLists(EnrichJobs)
    /\ enrich_names \in NameArrays
    /\ enrich_out = <<>>
    /\ enrich_pc = "idle"
NextEnrich == CallEnrichJobsWithNames
SpecEnrich == InitEnrich /\ [][NextEnrich]_vars

\* safe_json_dumps over drawn values.
Xs(n) == [i \in 1..n |-> "x"]

\* The length of a text whose serialisation, two quotes more, is the cap.
CapTextLen == MAX_RESPONSE_SIZE - 2

DumpInputs ==
    {JsonString(Xs(n)) : n \in 0..DumpSmall}
    \cup {JsonString(<<"\n", "\"">> \o Xs(n)) : n \in 0..DumpSmall}
    \cup {JsonString(Xs(n)) : n \in (CapTextLen - DumpSlack)..(CapTextLen + DumpSlack)}
    \cup {JsonString(<<"\n">> \o Xs(n)) :
            n \in (CapTextLen - DumpSlack)..(CapTextLen + DumpSlack)}
    \cup {JsonList([i \in 1..k |-> JsonString(Xs(i))]) : k \in 0..DumpSmall}
    \cup {JsonList([i \in 1..k |-> JsonString(Xs(1000))]) : k \in 1..DumpSmall}

CallSafeJsonDumps ==
    /\ dump_pc = "idle"
    /\ dump_out' = safe_json_dumps(dump_data, 2, MAX_RESPONSE_SIZE)
    /\ dump_pc' = "done"
    /\ UNCHANGED <<dump_data, clientVars, hudVars, enrichVars, toolVars>>

InitDumps ==
    /\ IdleExcept("dump")
    /\ dump_data \in DumpInputs
    /\ dump_out = <<>>
    /\ dump_pc = "idle"
NextDumps == CallSafeJsonDumps
SpecDumps == InitDumps /\ [][NextDumps]_vars

\* Number of transport invocations of the running call that failed.
FailedCalls == Cardinality({i \in 1..Len(transport) : RaisesRequestException(transport[i])})
AllCallsFailed == FailedCalls = Len(transport)

\* C1 (as stated): with a transport that fails on every call, the client error
\* is raised after exactly retry_attempts transport invocations.
C1_RaisesAfterExactlyRetryAttempts ==
    (client_pc = "raised" /\ AllCallsFailed /\ retry_attempts >= 1)
        => Len(transport) = retry_attempts

\* C1 (amended): with a transport that fails on every call, the client error
\* is raised after exactly retry_attempts + 1 transport invocations: the
\* first attempt and retry_attempts retries.
C1_RaisesAfterRetryAttemptsPlusOne ==
    /\ (client_pc = "raised" /\ AllCallsFailed) => Len(transport) = retry_attempts + 1
    /\ (client_pc = "request" /\ AllCallsFailed) => Len(transport) <= retry_attempts

C1_Witness ==
    /\ client_pc = "raised" /\ AllCallsFailed
    /\ retry_attempts = 3 /\ Len(transport) = 4

\* A response that ends the call with a value: 2xx with a JSON body.
Succeeded(resp) == ~RaisesRequestException(resp) /\ IsJson(resp.body)

\* C2: when the transport fails k < retry_attempts times and then succeeds,
\* the call returns the parsed body of that first successful response after
\* exactly k + 1 invocations, and no invocation follows the success.
C2_ReturnsFirstSuccess ==
    /\ client_pc = "returned" =>
        /\ Succeeded(transport[Len(transport)])
        /\ client_result = ParseJson(transport[Len(transport)].body)
        /\ FailedCalls < Len(transport)
    /\ (client_pc = "raised" /\ AllCallsFailed) => FailedCalls >= retry_attempts
    /\ \A i \in 1..(Len(transport) - 1) : ~Succeeded(transport[i])

C2_Witness ==
    /\ client_pc = "returned" /\ retry_attempts = 3
    /\ FailedCalls = 2 /\ Len(transport) = 3
    /\ client_result = [count |-> 1]

\* A 2xx response whose body is not JSON.
IsBadJson(resp) == ~RaisesRequestException(resp) /\ ~IsJson(resp.body)

\* C18: a 2xx response whose body is not valid JSON makes _make_request raise
\* PyTorchHudAPIError at once: no transport invocation and no backoff sleep
\* follows it, whatever the remaining retry budget; when it answers the
\* first attempt the transport has been invoked exactly once.
C18_BadJsonRaisesAtOnce ==
    \A i \in 1..Len(transport) :
        IsBadJson(transport[i]) =>
            /\ i = Len(transport)
            /\ client_pc = "raised"
            /\ client_result = PyTorchHudAPIError
            /\ Len(sleeps) = i - 1

\* C22: the sleep before the j-th retry is retry_delay * 2^(j-1): the first
\* is retry_delay and each later one is double the one before it (1, 2, 4
\* with the defaults); exactly one sleep precedes each retry, and no sleep
\* follows the last failed attempt or a success.
C22_BackoffDoubles ==
    /\ Len(sleeps) >= 1 => sleeps[1] = retry_delay
    /\ \A j \in 2..Len(sleeps) : sleeps[j] = 2 * sleeps[j - 1]
    /\ client_pc = "request" => Len(sleeps) = Len(transport)
    /\ client_pc \in {"returned", "raised"} => Len(sleeps) = Len(transport) - 1
    /\ (client_pc = "raised" /\ retry_attempts = 3 /\ retry_delay = 1 /\ AllCallsFailed)
        => sleeps = <<1, 2, 4>>
C22_Witness ==
    /\ client_pc = "raised" /\ AllCallsFailed
    /\ retry_attempts = 3 /\ retry_delay = 1
    /\ sleeps = <<1, 2, 4>> /\ Len(transport) = 4

\* ------------------------------------------------------------------------
\* Job classification (C3, C4, C5)
\* ------------------------------------------------------------------------
\* The non-empty jobs of a list whose conclusion is c.
WithConclusion(jobs, c) ==
    {i \in 1..Len(jobs) : ~IsEmptyJob(jobs[i]) /\ jobs[i].conclusion = Some(c)}
\* A job that concluded "success" although it carries failure lines.
IsHiddenFailure(job) ==
    job.conclusion = Some("success") /\ Has(job, "failureLines") /\ job.failureLines[1] # <<>>
HasHiddenFailure(jobs) == \E i \in 1..Len(jobs) : IsHiddenFailure(jobs[i])

GridJobs(i) == Get(hud_data.shaGrid[i], "jobs", <<>>)
FirstJobs == FirstCommitJobs(hud_data)

\* The grid with the failure lines, names and ids of every job removed.
WithoutFailureLines ==
    [hud_data EXCEPT !.shaGrid =
        [i \in 1..Len(hud_data.shaGrid) |->
            [hud_data.shaGrid[i] EXCEPT !.jobs =
                Some([k \in 1..Len(GridJobs(i)) |->
                        IF IsEmptyJob(GridJobs(i)[k]) THEN GridJobs(i)[k]
                        ELSE [GridJobs(i)[k] EXCEPT !.failureLines = Missing,
                                                    !.id = Missing, !.name = Missing]])]]]

\* C3: in every job-classifying operation the success bucket counts exactly
\* the jobs whose conclusion is "success" and the failure bucket exactly those
\* whose conclusion is "failure", so a job that concluded "success" with
\* non-empty failureLines is counted as a success and never as a failure; the
\* counts are the same when the failure lines are taken away.
C3_ClassifiedByConclusion ==
    /\ hud_call.op \in {"get_recent_commits_with_jobs", "get_recent_commit_status"} =>
        /\ \A i \in 1..Len(hud_result.commits) :
            /\ hud_result.commits[i].job_counts.success
                   = Cardinality(WithConclusion(GridJobs(i), "success"))
            /\ hud_result.commits[i].job_counts.failure
                   = Cardinality(WithConclusion(GridJobs(i), "failure"))
        /\ hud_call.op = "get_recent_commits_with_jobs" =>
            \A i \in 1..Len(hud_result.commits) :
                hud_result.commits[i].job_counts =
                    get_recent_commits_with_jobs(WithoutFailureLines, hud_call.args)
                        .commits[i].job_counts
        /\ hud_call.op = "get_recent_commit_status" =>
            \A i \in 1..Len(hud_result.commits) :
                hud_result.commits[i].job_counts =
                    get_recent_commit_status(WithoutFailureLines, hud_call.args)
                        .commits[i].job_counts
    /\ hud_call.op = "get_job_summary" =>
        /\ hud_result.status_counts.success = Cardinality(WithConclusion(FirstJobs, "success"))
        /\ hud_result.status_counts.failure = Cardinality(WithConclusion(FirstJobs, "failure"))
        /\ hud_result.status_counts = get_job_summary(WithoutFailureLines).status_counts
    /\ hud_call.op = "get_failure_details" =>
        /\ hud_result.job_status_counts.success
               = Cardinality(WithConclusion(FirstJobs, "success"))
        /\ hud_result.job_status_counts.failure
               = Cardinality(WithConclusion(FirstJobs, "failure"))
        /\ hud_result.total_failures = Cardinality(WithConclusion(FirstJobs, "failure"))
        /\ hud_result.job_status_counts
               = get_failure_details(WithoutFailureLines, hud_call.args).job_status_counts
    /\ hud_call.op = "get_workflow_summary" =>
        /\ \A w \in DOMAIN hud_result.workflows :
            LET mine == {i \in 1..Len(FirstJobs) : WorkflowOf(FirstJobs[i]) = Some(w)}
            IN  /\ hud_result.workflows[w].success
                       = Cardinality(mine \cap WithConclusion(FirstJobs, "success"))
                /\ hud_result.workflows[w].failure
                       = Cardinality(mine \cap WithConclusion(FirstJobs, "failure"))
        /\ hud_result.workflows = get_workflow_summary(WithoutFailureLines).workflows

\* get_recent_commits_with_jobs has counted two jobs that concluded "success",
\* one of them with failure lines, as two successes and no failure.
C3_Witness ==
    /\ hud_call.op = "get_recent_commits_with_jobs"
    /\ Len(hud_result.commits) = 1
    /\ HasHiddenFailure(GridJobs(1))
    /\ hud_result.commits[1].job_counts.success = 2
    /\ hud_result.commits[1].job_counts.failure = 0

\* C4 (as stated): for every commit returned by get_recent_commits_with_jobs
\* the success, failure, pending and skipped counts add up to the total.
C4_CountsSumToTotal ==
    hud_call.op = "get_recent_commits_with_jobs" =>
        \A i \in 1..Len(hud_result.commits) :
            LET c == hud_result.commits[i].job_counts
            IN  c.success + c.failure + c.pending + c.skipped = c.total

\* C5: the status of every commit returned by get_recent_commits_with_jobs
\* is "red" exactly when its failure count is positive, otherwise "pending"
\* exactly when its pending count is positive, otherwise "green" exactly when
\* its success count is positive, otherwise "unknown".
C5_StatusFromCounts ==
    hud_call.op = "get_recent_commits_with_jobs" =>
        \A i \in 1..Len(hud_result.commits) :
            LET c == hud_result.commits[i].job_counts
                status == hud_result.commits[i].status
            IN  /\ status = "red" <=> c.failure > 0
                /\ status = "pending" <=> (c.failure = 0 /\ c.pending > 0)
                /\ status = "green" <=> (c.failure = 0 /\ c.pending = 0 /\ c.success > 0)
                /\ status = "unknown" <=> (c.failure = 0 /\ c.pending = 0 /\ c.success = 0)
                /\ c.total = 0 => status = "unknown"

\* A commit without jobs is "unknown" and the one after it, with two failed
\* and three successful jobs, is "red".
C5_Witness ==
    /\ hud_call.op = "get_recent_commits_with_jobs"
    /\ Len(hud_result.commits) = 2
    /\ hud_result.commits[1].status = "unknown"
    /\ hud_result.commits[1].job_counts.total = 0
    /\ hud_result.commits[2].status = "red"
    /\ hud_result.commits[2].job_counts.success = 3
\* ------------------------------------------------------------------------
\* Attached jobs (C6, C7) and get_filtered_jobs (C8)
\* ------------------------------------------------------------------------
NoFilters(args) ==
    [args EXCEPT !.include_success = FALSE, !.include_pending = FALSE,
                 !.include_failures = FALSE, !.job_name_filter_regex = NoRegex,
                 !.failure_line_filter_regex = NoRegex]

\* C6: whatever include flags and regular expressions a call of
\* get_recent_commits_with_jobs carries, every commit it returns has the
\* job_counts and the status that the call without any filter returns for the
\* same grid; only the attached jobs differ.
C6_CountsIgnoreFilters ==
    hud_call.op = "get_recent_commits_with_jobs" =>
        LET unfiltered == get_recent_commits_with_jobs(hud_data, NoFilters(hud_call.args))
        IN  /\ Len(hud_result.commits) = Len(unfiltered.commits)
            /\ \A i \in 1..Len(hud_result.commits) :
                /\ hud_result.commits[i].job_counts = unfiltered.commits[i].job_counts
                /\ hud_result.commits[i].status = unfiltered.commits[i].status
                /\ [hud_result.commits[i] EXCEPT !.jobs = Missing] = unfiltered.commits[i]

\* A call with filters attached one of two counted jobs.
C6_Witness ==
    /\ hud_call.op = "get_recent_commits_with_jobs"
    /\ hud_call.args.include_failures /\ hud_call.args.failure_line_filter_regex = P_err
    /\ Len(hud_result.commits) = 1
    /\ hud_result.commits[1].job_counts.total = 2
    /\ hud_result.commits[1].job_counts.failure = 2
    /\ Has(hud_result.commits[1], "jobs")
    /\ Len(hud_result.commits[1].jobs[1]) = 1

\* C7 (as stated): when failure_line_filter_regex is set, no job without
\* failure lines (failureLines absent or empty) is attached to any commit.
C7_FailureLineFilterDropsJobsWithoutLines ==
    (/\ hud_call.op = "get_recent_commits_with_jobs"
     /\ hud_call.args.failure_line_filter_regex # NoRegex) =>
        \A i \in 1..Len(hud_result.commits) :
            LET attached == Get(hud_result.commits[i], "jobs", <<>>)
            IN  \A k \in 1..Len(attached) :
                    Has(attached[k], "failureLines") /\ attached[k].failureLines[1] # <<>>

\* The include flag of a count bucket.
IncludeFlag(args, bucket) ==
    CASE bucket = "success" -> args.include_success
      [] bucket = "failure" -> args.include_failures
      [] bucket = "pending" -> args.include_pending
      [] OTHER -> FALSE

\* C29: in get_recent_commits_with_jobs without regex filters, every attached
\* job belongs to a count bucket (success, failure or pending, by the
\* counting rule) whose include flag is set; with exactly one include flag
\* set, the number of attached jobs is the job_counts entry of that bucket.
C29_AttachedJobsAgreeWithCounts ==
    (/\ hud_call.op = "get_recent_commits_with_jobs"
     /\ hud_call.args.job_name_filter_regex = NoRegex
     /\ hud_call.args.failure_line_filter_regex = NoRegex) =>
        \A i \in 1..Len(hud_result.commits) :
            LET attached == Get(hud_result.commits[i], "jobs", <<>>)
                args == hud_call.args
            IN  /\ \A k \in 1..Len(attached) :
                    IncludeFlag(args, RecentCommitsBucket(attached[k]))
                /\ \A bucket \in {"success", "failure", "pending"} :
                    (\A b \in {"success", "failure", "pending"} :
                        IncludeFlag(args, b) <=> b = bucket)
                        => Len(attached) = hud_result.commits[i].job_counts[bucket]

\* C8: get_filtered_jobs with status "failure" returns, page by page, exactly
\* the jobs whose conclusion is "failure" and that pass the other filters: no
\* job that concluded "success" with failure lines, and every failed job.
C8_FailureFilterByConclusion ==
    (hud_call.op = "get_filtered_jobs" /\ hud_call.args.status = "failure") =>
        LET others == [hud_call.args EXCEPT !.status = NoneValue]
            expected == SelectSeq(enrich_hud_data(hud_data),
                            LAMBDA job : /\ job.conclusion = Some("failure")
                                         /\ FilteredJobsInclude(job, others))
            start_idx == (hud_call.args.page - 1) * hud_call.args.per_page
        IN  /\ hud_result.pagination.total_items = Len(expected)
            /\ hud_result.jobs = Slice(expected, start_idx, start_idx + hud_call.args.per_page)
            /\ \A k \in 1..Len(hud_result.jobs) : ~IsHiddenFailure(hud_result.jobs[k])

\* Of a failed job and a job that concluded "success" with failure lines,
\* the status filter "failure" returned the failed one only.
C8_Witness ==
    /\ hud_call.op = "get_filtered_jobs" /\ hud_call.args.status = "failure"
    /\ hud_call.args.workflow = NoRegex /\ hud_call.args.job_name_pattern = NoRegex
    /\ Len(FirstJobs) = 2
    /\ FirstJobs[1].conclusion = Some("failure")
    /\ IsHiddenFailure(FirstJobs[2])
    /\ Len(hud_result.jobs) = 1
    /\ hud_result.jobs[1].conclusion = Some("failure")
\* ------------------------------------------------------------------------
\* enrich_jobs_with_names (C9) and safe_json_dumps (C10)
\* ------------------------------------------------------------------------
Slashes(text) == {i \in 1..Len(text) : text[i] = "/"}
\* The text after the last "/".
AfterLastSlash(text) ==
    LET last == CHOOSE i \in Slashes(text) : \A k \in Slashes(text) : k <= i
    IN  SubSeq(text, last + 1, Len(text))

\* What enrich_jobs_with_names has returned, job by job.
C9_Enriched ==
    enrich_pc = "done" =>
        /\ Len(enrich_out) = Len(enrich_jobs)
        /\ \A k \in 1..Len(enrich_jobs) :
            LET job == enrich_jobs[k]
                indexed == /\ job.id # Missing /\ job.id[1].int
                           /\ 0 <= job.id[1].v /\ job.id[1].v < Len(enrich_names)
            IN  /\ IF indexed
                   THEN enrich_out[k] = [job EXCEPT !.name = Some(enrich_names[job.id[1].v + 1])]
                   ELSE IF /\ job.name = Missing /\ job.htmlUrl # Missing
                           /\ Cardinality(Slashes(job.htmlUrl[1])) + 1 > 4
                   THEN enrich_out[k] = [job EXCEPT !.name = Some(AfterLastSlash(job.htmlUrl[1]))]
                   ELSE enrich_out[k] = job

\* C9: enrich_jobs_with_names returns one job per input job, in order; a job
\* whose id is an integer i with 0 <= i < len(jobNames) gets the name
\* jobNames[i]; otherwise a job without a name whose htmlUrl has more than 4
\* "/"-separated segments gets the last segment as its name; otherwise the
\* job is returned as it is.  The caller's jobs are not changed.
C9_EnrichedNames == []C9_Enriched /\ [][enrich_jobs' = enrich_jobs]_vars

\* A named job with an index got the indexed name; an unnamed job without a
\* usable id got its name from a five-segment URL.
C9_Witness ==
    /\ enrich_pc = "done" /\ Len(enrich_jobs) = 2 /\ Len(enrich_names) = 2
    /\ enrich_jobs[1].id = Some(IntId(1)) /\ enrich_jobs[1].name = Some(T_job)
    /\ enrich_out[1].name = Some(T_lint)
    /\ enrich_jobs[2].id = Some(StrId(0)) /\ enrich_jobs[2].name = Missing
    /\ enrich_jobs[2].htmlUrl = Some(UrlFive)
    /\ enrich_out[2].name = Some(<<"j", "7">>)

TruncationMarker ==
  <<
    "<", "E", "R", "R", "O", "R", ":", " ", "R", "E", "S", "P", "O", "N", "S", "E",
    " ", "T", "R", "U", "N", "C", "A", "T", "E", "D", ">"
  >>

ContainsMarker(text) ==
    \E i \in 1..(Len(text) - Len(TruncationMarker) + 1) :
        SubSeq(text, i, i + Len(TruncationMarker) - 1) = TruncationMarker

\* C10: with the default cap, a value whose indented serialisation is longer
\* than 10,240 is returned as at most 10,240 characters that contain the
\* truncation marker; a value whose serialisation is at most 10,240 long is
\* returned as exactly that serialisation, without the marker.
C10_CappedSerialisation ==
    dump_pc = "done" =>
        LET serialised == JsonDumps(dump_data, 2)
        IN  /\ Len(serialised) > 10240 =>
                /\ Len(dump_out) <= 10240
                /\ ContainsMarker(dump_out)
            /\ Len(serialised) <= 10240 =>
                /\ dump_out = serialised
                /\ ~ContainsMarker(dump_out)

\* A serialisation one character over the cap came back truncated.
C10_Witness ==
    /\ dump_pc = "done"
    /\ dump_data = JsonString(Xs(10239))
    /\ Len(dump_out) = 10240
    /\ ContainsMarker(dump_out)

\* ------------------------------------------------------------------------
\* download_log_to_file (log_analysis/tools.py lines 42-100)
\* ------------------------------------------------------------------------
\* Timestamps (second resolution) that datetime.now() can format to.
MaxStamp == 1
Stamps == 0..MaxStamp
\* Most files the model lets temp_logs hold before it stops downloading.
MaxFiles == 2
\* Most successful downloads the model follows.
MaxDownloads == 2
DownloadJobIds == {101, 202}

\* Log texts api.download_log can return.
LogTexts == {<<>>, <<"a">>, <<"a", "\n", "b", "\n">>}

\* log_content.count('\n')
CountNewlines(text) == Cardinality({i \in 1..Len(text) : text[i] = "\n"})

\* api.get_s3_log_url(job_id): the fixed prefix followed by the job id.
S3LogUrl(job_id) == <<"https://ossci-raw-job-status.s3.amazonaws.com/log/", job_id>>

\* os.path.join(logs_dir, filename): lines 60 and 67-68.
LogFileName(job_id, stamp) == [job_id |-> job_id, stamp |-> stamp]
FilePath(name) == <<"temp_logs", name>>

\* open(filepath, 'w') followed by f.write(content): the file is created or
\* replaced.
WriteFile(dir, name, content) ==
    [dir EXCEPT !.files = {f \in dir.files : f.name # name}
                            \cup {[name |-> name, content |-> content]}]
RemoveFile(dir, name) ==
    [dir EXCEPT !.files = {f \in dir.files : f.name # name}]
FileNamed(dir, name) == CHOOSE f \in dir.files : f.name = name
HasFile(dir, name) == \E f \in dir.files : f.name = name

\* Lines 85-92.
DownloadSuccess(job_id, name, content, size) ==
    [success |-> TRUE, file_path |-> FilePath(name), job_id |-> job_id,
     size_bytes |-> size, line_count |-> CountNewlines(content) + 1,
     url |-> S3LogUrl(job_id)]
\* Lines 96-100.
DownloadFailure(job_id, error) ==
    [success |-> FALSE, error |-> error, job_id |-> job_id]
\* An exception that leaves the operation.
Raised(exception) == [raised |-> exception]

\* The tool is invoked: lines 55-57.
DownloadLogToFile ==
    /\ dl_pc \in {"idle", "returned", "raised"}
    /\ temp_logs.kind = "dir" => Cardinality(temp_logs.files) < MaxFiles
    /\ dl_successes < MaxDownloads
    /\ \E job_id \in DownloadJobIds : dl_job_id' = job_id
    /\ dl_pc' = "makedirs"
    /\ dl_filename' = NoFile
    /\ dl_content' = <<>>
    /\ dl_result' = NoResult
    /\ UNCHANGED temp_logs
    /\ UNCHANGED <<dl_completed, dl_successes>>
    /\ Frame("download")

\* Line 61 succeeds: the directory exists afterwards (exist_ok=True accepts
\* an existing one).  Lines 64-68 then build the file name from the clock.
MakeDirs ==
    /\ dl_pc = "makedirs"
    /\ temp_logs.kind \in {"absent", "dir"}
    /\ temp_logs' = [temp_logs EXCEPT !.kind = "dir"]
    /\ \E stamp \in Stamps : dl_filename' = LogFileName(dl_job_id, stamp)
    /\ dl_pc' = "download"
    /\ UNCHANGED <<dl_job_id, dl_content, dl_result>>
    /\ UNCHANGED <<dl_completed, dl_successes>>
    /\ Frame("download")

\* Line 61 raises OSError: temp_logs exists and is not a directory, or the
\* working directory does not allow creating it.  The call is outside the
\* try block of line 70, so the exception leaves the operation.
MakeDirsRaises ==
    /\ dl_pc = "makedirs"
    /\ temp_logs.kind \in {"absent", "file"}
    /\ dl_result' = Raised(IF temp_logs.kind = "file" THEN "FileExistsError"
                                                      ELSE "PermissionError")
    /\ dl_pc' = "raised"
    /\ UNCHANGED <<temp_logs, dl_job_id, dl_filename, dl_content>>
    /\ UNCHANGED <<dl_completed, dl_successes>>
    /\ Frame("download")

\* Line 72 returns the log text.
DownloadLog ==
    /\ dl_pc = "download"
    /\ \E text \in LogTexts : dl_content' = text
    /\ dl_pc' = "write"
    /\ UNCHANGED <<temp_logs, dl_job_id, dl_filename, dl_result>>
    /\ UNCHANGED <<dl_completed, dl_successes>>
    /\ Frame("download")

\* Line 72 raises PyTorchHudAPIError (client.py lines 333-335); lines 93-100.
DownloadLogRaises ==
    /\ dl_pc = "download"
    /\ dl_result' = DownloadFailure(dl_job_id, "PyTorchHudAPIError")
    /\ dl_pc' = "returned"
    /\ UNCHANGED <<temp_logs, dl_job_id, dl_filename, dl_content>>
    /\ UNCHANGED <<dl_completed, dl_successes>>
    /\ Frame("download")

\* Lines 75-76 write the file.
WriteLog ==
    /\ dl_pc = "write"
    /\ temp_logs' = WriteFile(temp_logs, dl_filename, dl_content)
    /\ dl_pc' = "getsize"
    /\ UNCHANGED <<dl_job_id, dl_filename, dl_content, dl_result>>
    /\ UNCHANGED <<dl_completed, dl_successes>>
    /\ Frame("download")

\* Lines 75-76 raise OSError: the file could not be opened, or was opened
\* (and so emptied) and could not be written; lines 93-100.
WriteLogRaises ==
    /\ dl_pc = "write"
    /\ \/ UNCHANGED temp_logs
       \/ temp_logs' = WriteFile(temp_logs, dl_filename, <<>>)
    /\ dl_result' = DownloadFailure(dl_job_id, "OSError")
    /\ dl_pc' = "returned"
    /\ UNCHANGED <<dl_job_id, dl_filename, dl_content>>
    /\ UNCHANGED <<dl_completed, dl_successes>>
    /\ Frame("download")

\* Lines 79-92: the size is read and the result returned.
GetSize ==
    /\ dl_pc = "getsize"
    /\ dl_result' = DownloadSuccess(dl_job_id, dl_filename, dl_content,
                                    Len(FileNamed(temp_logs, dl_filename).content))
    /\ dl_pc' = "returned"
    /\ UNCHANGED <<temp_logs, dl_job_id, dl_filename, dl_content>>
    /\ dl_completed' = dl_completed \cup {dl_filename}
    /\ dl_successes' = dl_successes + 1
    /\ Frame("download")

\* Line 79 raises OSError: the file is gone by the time its size is read
\* (nothing in this system removes it; something outside did); lines 93-100.
GetSizeRaises ==
    /\ dl_pc = "getsize"
    /\ temp_logs' = RemoveFile(temp_logs, dl_filename)
    /\ dl_result' = DownloadFailure(dl_job_id, "FileNotFoundError")
    /\ dl_pc' = "returned"
    /\ UNCHANGED <<dl_job_id, dl_filename, dl_content>>
    /\ UNCHANGED <<dl_completed, dl_successes>>
    /\ Frame("download")

InitDownload ==
    /\ IdleExcept("download")
    /\ temp_logs \in [kind : {"absent", "file", "dir"}, files : {{}}]
    /\ dl_job_id = 0
    /\ dl_filename = NoFile
    /\ dl_content = <<>>
    /\ dl_pc = "idle"
    /\ dl_result = NoResult
    /\ dl_completed = {}
    /\ dl_successes = 0
NextDownload ==
    \/ DownloadLogToFile
    \/ MakeDirs
    \/ MakeDirsRaises
    \/ DownloadLog
    \/ DownloadLogRaises
    \/ WriteLog
    \/ WriteLogRaises
    \/ GetSize
    \/ GetSizeRaises
SpecDownload == InitDownload /\ [][NextDownload]_vars

\* C11: download_log_to_file never raises to its caller: whichever step
\* fails, the operation ends by returning a structured result, and a failure
\* is reported as {success: false, error, job_id}.
C11_NeverRaises ==
    /\ dl_pc # "raised"
    /\ dl_pc = "returned" =>
        \/ dl_result.success
        \/ dl_result = DownloadFailure(dl_job_id, dl_result.error)

\* C21: after any sequence of successful download_log_to_file operations,
\* temp_logs holds one distinct file per completed download: the successful
\* downloads returned pairwise different paths, so none has overwritten the
\* file of another, and downloads of different jobs never share a path.
C21_OneFilePerCompletedDownload ==
    /\ Cardinality(dl_completed) = dl_successes
    /\ \A a \in dl_completed, b \in dl_completed :
        a.job_id # b.job_id => FilePath(a) # FilePath(b)

\* ------------------------------------------------------------------------
\* get_job_details (tools/hud_data.py lines 494-539)
\* ------------------------------------------------------------------------
\* Job ids handed to get_job_details: integers, or strings as in the tests.
DetailsJobIds == {IntId(7), StrId(7), IntId(8), StrId(8)}
\* str(job_id): line 514.
Str(job_id) == StrId(job_id.v)

\* JSON null / Python None as a field value.
Null == [kind |-> "null"]
\* What the artifacts and utilization endpoints answer.
ArtifactValues ==
    {[kind |-> "dict", artifacts |-> <<>>],
     [kind |-> "dict", artifacts |-> <<"artifact1.txt">>],
     [kind |-> "dict", artifacts |-> <<"artifact1.txt", "artifact2.zip">>]}
UtilizationValues ==
    {[kind |-> "dict", metadata |-> <<>>],
     [kind |-> "dict", metadata |-> <<"cpu_utilization">>],
     [kind |-> "dict", metadata |-> <<"cpu_utilization", "gpu_utilization">>]}
\* Exceptions a lookup can end with: the client error, or any other Exception.
LookupErrors == {"PyTorchHudAPIError", "Exception"}

\* One attempted lookup: the client call made and how it ended.
Returned(call, value) == [call |-> call, ok |-> TRUE, value |-> value]
Failed(call, error) == [call |-> call, ok |-> FALSE, value |-> Raised(error)]
ArtifactsCall(job_id) == [op |-> "get_artifacts", provider |-> "s3", job_id |-> Str(job_id)]
UtilizationCall(job_id) == [op |-> "get_utilization_metadata", job_id |-> Str(job_id)]

AfterArtifacts_Abort(failed) == IF failed THEN "returned" ELSE "utilization"
\* Lines 525-532: whether or not the artifacts lookup failed, the function
\* goes on to the utilization lookup.
AfterArtifacts(failed) == "utilization"

\* Lines 510-519.
GetJobDetails ==
    /\ jd_pc \in {"idle", "returned"}
    /\ \E job_id \in DetailsJobIds :
        /\ jd_job_id' = job_id
        /\ jd_result' = [job_id |-> job_id, log_url |-> S3LogUrl(Str(job_id)),
                         artifacts |-> Missing, utilization |-> Missing]
    /\ jd_lookups' = <<>>
    /\ jd_pc' = "artifacts"
    /\ Frame("details")

\* Lines 522-524.
ArtifactsReturns ==
    /\ jd_pc = "artifacts"
    /\ \E value \in ArtifactValues :
        /\ jd_lookups' = Append(jd_lookups, Returned(ArtifactsCall(jd_job_id), value))
        /\ jd_result' = [jd_result EXCEPT !.artifacts = Some(value)]
    /\ jd_pc' = AfterArtifacts(FALSE)
    /\ UNCHANGED jd_job_id
    /\ Frame("details")

\* Lines 523 and 525-528.
ArtifactsRaises ==
    /\ jd_pc = "artifacts"
    /\ \E error \in LookupErrors :
        jd_lookups' = Append(jd_lookups, Failed(ArtifactsCall(jd_job_id), error))
    /\ jd_result' = [jd_result EXCEPT !.artifacts = Some(Null)]
    /\ jd_pc' = AfterArtifacts(TRUE)
    /\ UNCHANGED jd_job_id
    /\ Frame("details")

\* Lines 531-533 and 539.
UtilizationReturns ==
    /\ jd_pc = "utilization"
    /\ \E value \in UtilizationValues :
        /\ jd_lookups' = Append(jd_lookups, Returned(UtilizationCall(jd_job_id), value))
        /\ jd_result' = [jd_result EXCEPT !.utilization = Some(value)]
    /\ jd_pc' = "returned"
    /\ UNCHANGED jd_job_id
    /\ Frame("details")

\* Lines 532, 534-537 and 539.
UtilizationRaises ==
    /\ jd_pc = "utilization"
    /\ \E error \in LookupErrors :
        jd_lookups' = Append(jd_lookups, Failed(UtilizationCall(jd_job_id), error))
    /\ jd_result' = [jd_result EXCEPT !.utilization = Some(Null)]
    /\ jd_pc' = "returned"
    /\ UNCHANGED jd_job_id
    /\ Frame("details")

InitDetails ==
    /\ IdleExcept("details")
    /\ DetailsIdle
NextDetails ==
    \/ GetJobDetails
    \/ ArtifactsReturns
    \/ ArtifactsRaises
    \/ UtilizationReturns
    \/ UtilizationRaises
SpecDetails == InitDetails /\ [][NextDetails]_vars

\* The field a lookup leaves in the result: its value, or null when it failed.
FieldOf(lookup) == IF lookup.ok THEN Some(lookup.value) ELSE Some(Null)

\* C12: get_job_details attempts the artifacts lookup and then the
\* utilization lookup exactly once each, whatever the outcome of the other;
\* a failed lookup makes only its own field null, job_id and log_url are
\* intact, and the operation returns normally.
C12_LookupsDegradeIndependently ==
    /\ jd_pc # "raised"
    /\ jd_pc = "returned" =>
        /\ Len(jd_lookups) = 2
        /\ jd_lookups[1].call = ArtifactsCall(jd_job_id)
        /\ jd_lookups[2].call = UtilizationCall(jd_job_id)
        /\ jd_result.artifacts = FieldOf(jd_lookups[1])
        /\ jd_result.utilization = FieldOf(jd_lookups[2])
        /\ jd_result.job_id = jd_job_id
        /\ jd_result.log_url = S3LogUrl(Str(jd_job_id))

\* The artifacts lookup failed and the utilization lookup still answered.
C12_Witness ==
    /\ jd_pc = "returned"
    /\ ~jd_lookups[1].ok /\ jd_lookups[2].ok
    /\ jd_result.artifacts = Some(Null)
    /\ jd_result.utilization = Some([kind |-> "dict", metadata |-> <<"cpu_utilization">>])
    /\ jd_result.job_id = IntId(7)

\* ------------------------------------------------------------------------
\* filter_log_sections (log_analysis/tools.py lines 312-424)
\* ------------------------------------------------------------------------
\* Longest log file, in lines, that the model draws.
MaxLogLines == 5
\* Largest max_lines argument drawn.
MaxSectionLines == 3

LogPath == "temp_logs/job.log"
MissingPath == "/nonexistent/file.log"
\* os.path.exists(file_path)
PathExists(path) == path = log_files.path

\* str(n) for n >= 0.
DigitChars == <<"0", "1", "2", "3", "4", "5", "6", "7", "8", "9">>
RECURSIVE IntText(_)
IntText(n) ==
    IF n < 10 THEN <<DigitChars[n + 1]>>
    ELSE Append(IntText(n \div 10), DigitChars[(n % 10) + 1])

\* re.compile(pattern).search(line) for a pattern without metacharacters:
\* the pattern occurs in the line, letter case included.
Find(pattern, text) ==
    \E i \in 1..(Len(text) - Len(pattern) + 1) :
        SubSeq(text, i, i + Len(pattern) - 1) = pattern
\* A pattern re.compile rejects.
BadRegex == <<"(">>

\* line.rstrip(): trailing whitespace (the line terminator included) removed.
RECURSIVE Rstrip(_)
Rstrip(line) ==
    IF line # <<>> /\ line[Len(line)] \in {" ", "\n", "\t", "\r"}
    THEN Rstrip(SubSeq(line, 1, Len(line) - 1))
    ELSE line

\* "\n".join(lines)
RECURSIVE JoinLines(_)
JoinLines(lines) ==
    IF lines = <<>> THEN <<>>
    ELSE IF Len(lines) = 1 THEN lines[1]
    ELSE lines[1] \o <<"\n">> \o JoinLines(Tail(lines))

\* Line 377.
TruncationNote(max_lines) ==
    <<".", ".", ".", " ", "[", "truncated after ">> \o IntText(max_lines)
        \o <<" lines", "]", " ", ".", ".", ".">>

\* Lines 378-382, 391-395 and 406-410.
Section(start_line, lines, truncated) ==
    [start_line |-> start_line, content |-> JoinLines(lines), truncated |-> truncated]

\* Lines 352-362: the scan has found nothing yet.
ScanStart ==
    [in_section |-> FALSE, current_section |-> <<>>, current_start_line |-> 0,
     sections |-> <<>>, section_count |-> 0]

CloseSection(st, lines, truncated) ==
    [st EXCEPT !.sections = Append(@, Section(st.current_start_line, lines, truncated)),
               !.section_count = @ + 1,
               !.in_section = FALSE,
               !.current_section = <<>>]

ReachedMaxLines_After(current_section, max_lines) == Len(current_section) > max_lines
\* Line 375.
ReachedMaxLines(current_section, max_lines) == Len(current_section) >= max_lines

\* Lines 364-402: one iteration of the loop.
ScanLine(st, line_num, line, start_pattern, end_pattern, max_lines) ==
    IF ~st.in_section /\ Find(start_pattern, line)
    THEN [st EXCEPT !.in_section = TRUE,
                    !.current_section = <<Rstrip(line)>>,
                    !.current_start_line = line_num]
    ELSE IF ~st.in_section THEN st
    ELSE IF ReachedMaxLines(st.current_section, max_lines)
    THEN CloseSection(st, Append(st.current_section, TruncationNote(max_lines)), TRUE)
    ELSE IF end_pattern \notin {NoRegex, <<>>} /\ Find(end_pattern, line)
    THEN CloseSection(st, Append(st.current_section, Rstrip(line)), FALSE)
    ELSE [st EXCEPT !.current_section = Append(@, Rstrip(line))]

RECURSIVE ScanFrom(_, _, _, _, _, _)
ScanFrom(st, line_num, lines, start_pattern, end_pattern, max_lines) ==
    IF line_num > Len(lines) THEN st
    ELSE ScanFrom(ScanLine(st, line_num, lines[line_num], start_pattern,
                           end_pattern, max_lines),
                  line_num + 1, lines, start_pattern, end_pattern, max_lines)

ScanEnd_Dropped(st) == st
\* Lines 404-411.
ScanEnd(st) ==
    IF st.in_section /\ st.current_section # <<>>
    THEN CloseSection(st, st.current_section, FALSE)
    ELSE st

FileNotFound(path) == [success |-> FALSE, error |-> <<"File not found: ", path>>]
StartPatternRequired == [success |-> FALSE, error |-> <<"Start pattern is required">>]
AnalysisError(path, error) == [success |-> FALSE, error |-> <<error>>, file_path |-> path]

ValidationFailure_PatternFirst(args) ==
    IF args.start_pattern \in {NoRegex, <<>>} THEN StartPatternRequired
    ELSE FileNotFound(args.file_path)
\* Lines 332-345: the path is looked at before the start pattern.
ValidationFailure(args) ==
    IF ~PathExists(args.file_path) THEN FileNotFound(args.file_path)
    ELSE StartPatternRequired

filter_log_sections(args) ==
    IF ~PathExists(args.file_path) \/ args.start_pattern \in {NoRegex, <<>>}
    THEN ValidationFailure(args)
    ELSE IF BadRegex \in {args.start_pattern, args.end_pattern}
    THEN AnalysisError(args.file_path, "re.error")
    ELSE LET st == ScanEnd(ScanFrom(ScanStart, 1, log_files.lines, args.start_pattern,
                                    args.end_pattern, args.max_lines))
         IN  [success |-> TRUE, file_path |-> args.file_path,
              sections |-> st.sections, section_count |-> st.section_count]

\* Lines of the drawn log files: a start line, a plain line with trailing
\* blanks, an end line, and a line that is both.
L_start == <<"S">>
L_plain == <<"x", " ">>
L_end == <<"E">>
L_both == <<"S", "E">>
LogLines == {L_start, L_plain, L_end, L_both}
RECURSIVE SeqsUpTo(_, _)
SeqsUpTo(S, n) ==
    IF n = 0 THEN {<<>>}
    ELSE LET shorter == SeqsUpTo(S, n - 1)
         IN  shorter \cup {Append(q, x) : q \in {r \in shorter : Len(r) = n - 1}, x \in S}

FilterArgs ==
    [file_path : {LogPath}, start_pattern : {NoRegex, <<>>, <<"S">>, BadRegex},
     end_pattern : {NoRegex, <<"E">>}, max_lines : 1..MaxSectionLines]
    \cup [file_path : {MissingPath}, start_pattern : {NoRegex, <<"S">>},
          end_pattern : {NoRegex}, max_lines : {100}]

CallFilterLogSections ==
    /\ log_call = NoCall
    /\ \E args \in FilterArgs :
        /\ log_call' = [op |-> "filter_log_sections", args |-> args]
        /\ log_result' = filter_log_sections(args)
    /\ UNCHANGED log_files
    /\ Frame("log")

InitSections ==
    /\ IdleExcept("log")
    /\ log_files \in [path : {LogPath}, lines : SeqsUpTo(LogLines, MaxLogLines)]
    /\ log_call = NoCall
    /\ log_result = NoResult
NextSections == CallFilterLogSections
SpecSections == InitSections /\ [][NextSections]_vars

\* content.split("\n")
RECURSIVE SplitLinesFrom(_, _, _)
SplitLinesFrom(text, i, current) ==
    IF i > Len(text) THEN <<current>>
    ELSE IF text[i] = "\n" THEN <<current>> \o SplitLinesFrom(text, i + 1, <<>>)
    ELSE SplitLinesFrom(text, i + 1, Append(current, text[i]))
SplitLines(text) == SplitLinesFrom(text, 1, <<>>)

FilterCalled == log_call.op = "filter_log_sections"
FilterSucceeded == FilterCalled /\ log_result.success
\* Line j of the file matches the end pattern of the call.
EndMatches(j) ==
    /\ log_call.args.end_pattern \notin {NoRegex, <<>>}
    /\ Find(log_call.args.end_pattern, log_files.lines[j])
StartMatches(j) == Find(log_call.args.start_pattern, log_files.lines[j])
\* Lines i..j of the file as they appear in a section.
FileLines(i, j) == [k \in 1..(j - i + 1) |-> Rstrip(log_files.lines[i + k - 1])]

\* C13: with max_lines = m >= 1, a section whose start line is followed by at
\* least m further lines, none of the first m - 1 of them matching the end
\* pattern, is emitted with truncated = true and its content is exactly the
\* start line and the next m - 1 lines (trailing whitespace removed) followed
\* by one truncation-marker line; the first start match of the file opens a
\* section.
C13_TruncatedAfterMaxLines ==
    FilterSucceeded =>
        LET m == log_call.args.max_lines
            n == Len(log_files.lines)
            sections == log_result.sections
        IN  /\ \A k \in 1..Len(sections) :
                LET i == sections[k].start_line
                IN  (i + m <= n /\ \A j \in (i + 1)..(i + m - 1) : ~EndMatches(j))
                        => /\ sections[k].truncated
                           /\ SplitLines(sections[k].content)
                                = Append(FileLines(i, i + m - 1), TruncationNote(m))
            /\ \A i \in 1..n :
                (StartMatches(i) /\ \A j \in 1..(i - 1) : ~StartMatches(j))
                    => sections # <<>> /\ sections[1].start_line = i

\* The tests' case: max_lines = 3, no end pattern, three lines after the start.
C13_Witness ==
    /\ FilterSucceeded
    /\ log_call.args.max_lines = 3 /\ log_call.args.end_pattern = NoRegex
    /\ log_files.lines = <<L_plain, L_start, L_plain, L_end, L_plain>>
    /\ log_result.section_count = 1
    /\ log_result.sections[1].truncated
    /\ Len(SplitLines(log_result.sections[1].content)) = 4

StartPatternOmitted == FilterCalled /\ log_call.args.start_pattern \in {NoRegex, <<>>}

\* C14 (as stated): whenever start_pattern is omitted, whether or not the
\* file exists, the result is the failure "Start pattern is required".
C14_StartPatternRequiredAlways ==
    StartPatternOmitted => log_result = StartPatternRequired

\* C14 (amended): when start_pattern is omitted and the file exists, the
\* result is the failure "Start pattern is required" and nothing is scanned;
\* when the file does not exist the result is the file-not-found failure,
\* whether or not a start pattern was given.
C14_StartPatternRequiredIfFileExists ==
    /\ (StartPatternOmitted /\ PathExists(log_call.args.file_path))
            => log_result = StartPatternRequired
    /\ (FilterCalled /\ ~PathExists(log_call.args.file_path))
            => log_result = FileNotFound(log_call.args.file_path)
    /\ (StartPatternOmitted \/ (FilterCalled /\ ~PathExists(log_call.args.file_path)))
            => "sections" \notin DOMAIN log_result

C14_Witness ==
    /\ StartPatternOmitted
    /\ log_call.args.start_pattern = NoRegex
    /\ PathExists(log_call.args.file_path)
    /\ log_files.lines = <<L_start, L_plain>>
    /\ log_result = StartPatternRequired

\* ------------------------------------------------------------------------
\* extract_log_patterns (log_analysis/tools.py lines 102-196)
\* ------------------------------------------------------------------------
\* Longest log file, in lines, drawn for extract_log_patterns.
MaxPatternLines == 6
\* Line 175: samples kept per pattern.
MaxSamples == 5
\* Line 176: characters kept of a sample's text.
SampleTextLen == 150

\* A regular expression is a list of alternatives, each a list of atoms: a
\* literal text, ".*" (greedy) or ".*?" (lazy), the group "(\d+)", or one or
\* more characters of a class.
Lit(text) == [t |-> "lit", text |-> text]
AnyGreedy == [t |-> "any", lazy |-> FALSE]
AnyLazy == [t |-> "any", lazy |-> TRUE]
Digits == [t |-> "digits"]
IsDigit(c) == \E d \in 1..10 : DigitChars[d] = c
\* "[...]+" over the characters chars, as a group or not.
OneOrMore(chars, group) == [t |-> "some", chars |-> chars, group |-> group]
\* The characters a repeated atom accepts.
AtomHas(atom, c) == IF atom.t = "digits" THEN IsDigit(c) ELSE c \in atom.chars
SetMin(S) == CHOOSE x \in S : \A y \in S : x <= y
SetMax(S) == CHOOSE x \in S : \A y \in S : x >= y

\* The groups captured when atoms k.. match the text from pos on, or Missing.
RECURSIVE MatchAt(_, _, _, _)
MatchAt(atoms, k, text, pos) ==
    IF k > Len(atoms) THEN Some(<<>>)
    ELSE LET atom == atoms[k]
             After(p) == MatchAt(atoms, k + 1, text, p)
         IN  IF atom.t = "lit"
             THEN IF /\ pos + Len(atom.text) - 1 <= Len(text)
                     /\ \A i \in 1..Len(atom.text) : text[pos + i - 1] = atom.text[i]
                  THEN After(pos + Len(atom.text))
                  ELSE Missing
             ELSE IF atom.t = "any"
             THEN LET ps == {p \in pos..(Len(text) + 1) : After(p) # Missing}
                  IN  IF ps = {} THEN Missing
                      ELSE After(IF atom.lazy THEN SetMin(ps) ELSE SetMax(ps))
             ELSE LET ns == {n \in 1..(Len(text) - pos + 1) :
                                /\ \A i \in pos..(pos + n - 1) : AtomHas(atom, text[i])
                                /\ After(pos + n) # Missing}
                  IN  IF ns = {} THEN Missing
                      ELSE LET n == SetMax(ns)
                           IN  IF atom.t = "some" /\ ~atom.group THEN After(pos + n)
                               ELSE Some(<<SubSeq(text, pos, pos + n - 1)>>
                                         \o After(pos + n)[1])

\* pattern.search(line): the groups of the leftmost match, or Missing.
RegexSearch(regex, line) ==
    LET text == IF regex.ci THEN LowerText(line) ELSE line
        \* A match of an alternative that opens with a literal starts on the
        \* literal's first character.
        CanStart(a, pos) ==
            regex.alts[a][1].t = "lit" =>
                pos <= Len(text) /\ text[pos] = regex.alts[a][1].text[1]
        MatchesAt(pos) == {a \in 1..Len(regex.alts) :
                              /\ CanStart(a, pos)
                              /\ MatchAt(regex.alts[a], 1, text, pos) # Missing}
        hits == {pos \in 1..(Len(text) + 1) : MatchesAt(pos) # {}}
    IN  IF hits = {} THEN Missing
        ELSE LET pos == SetMin(hits)
             IN  MatchAt(regex.alts[SetMin(MatchesAt(pos))], 1,
                         IF regex.ci THEN text ELSE line, pos)

\* Lines 129-138.
default_patterns == <<
    [name |-> "error",
     regex |-> [ci |-> TRUE, alts |-> <<
               <<Lit(<<"e", "r", "r", "o", "r", ":">>)>>>>]],
    [name |-> "exception",
     regex |-> [ci |-> TRUE, alts |-> <<
               <<Lit(<<"e", "x", "c", "e", "p", "t", "i", "o", "n", ":">>)>>>>]],
    [name |-> "warning",
     regex |-> [ci |-> TRUE, alts |-> <<
               <<Lit(<<"w", "a", "r", "n", "i", "n", "g", ":">>)>>>>]],
    [name |-> "test_failed",
     regex |-> [ci |-> FALSE, alts |-> <<
               <<Lit(<<"F", "A", "I", "L", "E", "D">>), AnyGreedy, Lit(<<"t", "e", "s", "t", "_">>)>>>>]],
    [name |-> "test_results",
     regex |-> [ci |-> FALSE, alts |-> <<
               <<Lit(<<"R", "a", "n", " ">>), Digits, Lit(<<" ", "t", "e", "s", "t", "s">>), AnyLazy, Digits, Lit(<<" ", "f", "a", "i", "l", "u", "r", "e", "s">>)>>>>]],
    [name |-> "cuda_error",
     regex |-> [ci |-> FALSE, alts |-> <<
               <<Lit(<<"C", "U", "D", "A", " ", "e", "r", "r", "o", "r">>)>>,
               <<Lit(<<"C", "U", "D", "A", " ", "e", "x", "c", "e", "p", "t", "i", "o", "n">>)>>,
               <<Lit(<<"c", "u", "d", "a", "E", "r", "r", "o", "r">>)>>>>]],
    [name |-> "out_of_memory",
     regex |-> [ci |-> FALSE, alts |-> <<
               <<Lit(<<"O", "u", "t", "O", "f", "M", "e", "m", "o", "r", "y", "E", "r", "r", "o", "r">>)>>,
               <<Lit(<<"O", "O", "M">>)>>,
               <<Lit(<<"o", "u", "t", " ", "o", "f", " ", "m", "e", "m", "o", "r", "y">>)>>>>]],
    [name |-> "build_failed",
     regex |-> [ci |-> FALSE, alts |-> <<
               <<Lit(<<"B", "u", "i", "l", "d", " ", "f", "a", "i", "l", "e", "d">>)>>,
               <<Lit(<<"c", "o", "m", "p", "i", "l", "a", "t", "i", "o", "n", " ", "f", "a", "i", "l", "e", "d">>)>>,
               <<Lit(<<"e", "r", "r", "o", "r", ":", " ", "c", "o", "m", "m", "a", "n", "d", " ">>), AnyGreedy, Lit(<<" ", "f", "a", "i", "l", "e", "d">>)>>>>]]>>

\* line.strip()
RECURSIVE Lstrip(_)
Lstrip(line) ==
    IF line # <<>> /\ line[1] \in {" ", "\n", "\t", "\r"} THEN Lstrip(Tail(line))
    ELSE line
Strip(line) == Lstrip(Rstrip(line))
\* text[:n]
Prefix(text, n) == SubSeq(text, 1, Min(n, Len(text)))

\* Lines 177-181.
Sample(line_num, line, groups) ==
    [line_num |-> line_num, text |-> Prefix(Strip(line), SampleTextLen),
     groups |-> IF groups = <<>> THEN Null ELSE [kind |-> "tuple", items |-> groups]]

SamplesFull_OneMore(sample_list) == Len(sample_list) > MaxSamples
\* Line 175: if len(sample_list) < 5
SamplesFull(sample_list) == Len(sample_list) >= MaxSamples

\* Lines 143-149.
NoMatches == [matches |-> <<>>, counts |-> <<>>, samples |-> <<>>]

\* Lines 163-181: a line matched the named pattern.
RecordMatch(res, name, line_num, line, groups) ==
    LET first == IF name \in DOMAIN res.matches THEN res
                 ELSE [matches |-> res.matches @@ (name :> <<>>),
                       counts |-> res.counts @@ (name :> 0),
                       samples |-> res.samples @@ (name :> <<>>)]
        counted == [first EXCEPT !.counts[name] = @ + 1]
    IN  IF SamplesFull(counted.samples[name]) THEN counted
        ELSE [counted EXCEPT !.samples[name] = Append(@, Sample(line_num, line, groups))]

\* Lines 161-181: every pattern is tried on the line, in dictionary order.
RECURSIVE ScanPatterns(_, _, _, _, _)
ScanPatterns(res, patterns, k, line_num, line) ==
    IF k > Len(patterns) THEN res
    ELSE LET found == RegexSearch(patterns[k].regex, line)
         IN  ScanPatterns(IF found = Missing THEN res
                          ELSE RecordMatch(res, patterns[k].name, line_num, line, found[1]),
                          patterns, k + 1, line_num, line)

\* Lines 159-160.
RECURSIVE ScanLines(_, _, _, _)
ScanLines(res, patterns, line_num, lines) ==
    IF line_num > Len(lines) THEN res
    ELSE ScanLines(ScanPatterns(res, patterns, 1, line_num, lines[line_num]),
                   patterns, line_num + 1, lines)

\* A pattern re.compile rejects, such as "(".
InvalidRegex == [ci |-> FALSE, alts |-> <<>>]
\* Line 140: patterns or default_patterns.  The argument is Missing (None) or
\* the (name, regex) items of a dictionary.
UsePatterns(patterns) ==
    IF patterns = Missing \/ patterns = Some(<<>>) THEN default_patterns
    ELSE patterns[1]

\* Line 155 compiles the patterns outside the try block, so a rejected
\* pattern raises; readable is FALSE when opening or reading the file fails
\* (line 159), which lines 189-196 report.
extract_log_patterns(args, readable) ==
    IF ~PathExists(args.file_path) THEN FileNotFound(args.file_path)
    ELSE IF \E k \in 1..Len(UsePatterns(args.patterns)) :
                UsePatterns(args.patterns)[k].regex = InvalidRegex
    THEN Raised("re.error")
    ELSE IF ~readable THEN AnalysisError(args.file_path, "OSError")
    ELSE LET res == ScanLines(NoMatches, UsePatterns(args.patterns), 1, log_files.lines)
         IN  [success |-> TRUE, file_path |-> args.file_path, matches |-> res.matches,
              counts |-> res.counts, samples |-> res.samples]

\* Lines of the drawn log files: an error line with surrounding blanks, a
\* line longer than SampleTextLen, and a unit-test summary.
P_oom_line == <<" ", " ", "E", "r", "r", "o", "r", ":", " ", "O", "O", "M", " ">>
P_long_line == <<"e", "r", "r", "o", "r", ":">> \o [i \in 1..SampleTextLen |-> "x"]
P_ran_line == <<"R", "a", "n", " ", "1", "2", " ", "t", "e", "s", "t", "s", " ", "3", " ", "f", "a", "i", "l", "u", "r", "e", "s">>
PatternLines == {P_oom_line, P_long_line, P_ran_line}

\* The drawn files hold at most one long line.
PatternFiles ==
    {f \in SeqsUpTo(PatternLines, MaxPatternLines) :
        Cardinality({i \in 1..Len(f) : f[i] = P_long_line}) <= 1}

R_oom == [ci |-> FALSE, alts |-> <<<<Lit(<<"O", "O", "M">>)>>>>]
R_error == [ci |-> FALSE, alts |-> <<<<Lit(<<"e", "r", "r", "o", "r", ":">>)>>>>]
R_none == [ci |-> FALSE, alts |-> <<<<Lit(<<"z">>)>>>>]
PatternArgs ==
    [file_path : {LogPath},
     patterns : {Missing,
                 Some(<<[name |-> "oom", regex |-> R_oom]>>),
                 Some(<<[name |-> "err", regex |-> R_error],
                        [name |-> "oom", regex |-> R_oom],
                        [name |-> "none", regex |-> R_none]>>),
                 Some(<<[name |-> "bad", regex |-> InvalidRegex]>>)}]
    \cup [file_path : {MissingPath}, patterns : {Missing}]

CallExtractLogPatterns ==
    /\ log_call = NoCall
    /\ \E args \in PatternArgs, readable \in BOOLEAN :
        /\ log_call' = [op |-> "extract_log_patterns", args |-> args]
        /\ log_result' = extract_log_patterns(args, readable)
    /\ UNCHANGED log_files
    /\ Frame("log")

InitPatterns ==
    /\ IdleExcept("log")
    /\ log_files \in [path : {LogPath}, lines : PatternFiles]
    /\ log_call = NoCall
    /\ log_result = NoResult
NextPatterns == CallExtractLogPatterns
SpecPatterns == InitPatterns /\ [][NextPatterns]_vars

PatternsSucceeded ==
    /\ log_call.op = "extract_log_patterns"
    /\ "success" \in DOMAIN log_result
    /\ log_result.success
\* The numbers of the file lines the k-th pattern of the call matches.
MatchingLines(k) ==
    {i \in 1..Len(log_files.lines) :
        RegexSearch(UsePatterns(log_call.args.patterns)[k].regex, log_files.lines[i]) # Missing}
\* The first MaxSamples of a set of line numbers.
FirstLines(S) == {i \in S : Cardinality({j \in S : j < i}) < MaxSamples}

\* C15: in every successful extract_log_patterns result, for every pattern:
\* counts[name] is the number of file lines the pattern matches; samples[name]
\* holds min(counts[name], 5) entries, the first matching lines in
\* increasing line_num order, each with a text of at most 150 characters; a
\* pattern that matches no line is in neither counts nor samples.
C15_CountsAndSamples ==
    PatternsSucceeded =>
        LET patterns == UsePatterns(log_call.args.patterns)
            counts == log_result.counts
            samples == log_result.samples
        IN  /\ DOMAIN counts = DOMAIN samples
            /\ DOMAIN counts \subseteq {patterns[k].name : k \in 1..Len(patterns)}
            /\ \A k \in 1..Len(patterns) :
                LET name == patterns[k].name
                    lines == MatchingLines(k)
                IN  IF lines = {} THEN name \notin DOMAIN counts
                    ELSE /\ name \in DOMAIN counts
                         /\ counts[name] = Cardinality(lines)
                         /\ Len(samples[name]) = Min(counts[name], MaxSamples)
                         /\ {samples[name][j].line_num : j \in 1..Len(samples[name])}
                                = FirstLines(lines)
                         /\ \A j \in 1..(Len(samples[name]) - 1) :
                                samples[name][j].line_num < samples[name][j + 1].line_num
                         /\ \A j \in 1..Len(samples[name]) :
                                Len(samples[name][j].text) <= SampleTextLen

\* Six lines match the default error pattern, the second being the long
\* one: the count is six and the first five lines are the samples.
C15_Witness ==
    /\ PatternsSucceeded
    /\ log_call.args.patterns = Missing
    /\ log_files.lines = <<P_oom_line, P_long_line, P_oom_line, P_oom_line,
                           P_oom_line, P_oom_line>>
    /\ log_result.counts["error"] = 6
    /\ log_result.counts["out_of_memory"] = 5
    /\ Len(log_result.samples["error"]) = MaxSamples
    /\ Len(log_result.samples["error"][2].text) = SampleTextLen
    /\ log_result.samples["error"][5].line_num = 5
    /\ log_result.samples["out_of_memory"][2].line_num = 3
    /\ "warning" \notin DOMAIN log_result.counts

\* ------------------------------------------------------------------------
\* Pagination of get_filtered_jobs (tools/hud_data.py lines 334-370)
\* ------------------------------------------------------------------------
\* Longest job list, largest page and largest per_page drawn for the pages.
MaxPageJobs == 7
MaxPage == 4
MaxPerPage == 3

PageJob(conclusion) ==
    [id |-> Missing, name |-> Missing, status |-> Some("completed"),
     conclusion |-> Some(conclusion), failureLines |-> Missing, htmlUrl |-> Missing]
PageJobLists ==
    UNION {[1..n -> {PageJob("success"), PageJob("failure")}] : n \in 0..MaxPageJobs}
PageGrids ==
    {[shaGrid |-> <<Commit(<<"a", "1">>, WithColumnIds(jobs))>>, jobNames |-> JobNames] :
        jobs \in PageJobLists}
PageArgs ==
    [status : {NoneValue, "failure"}, workflow : {NoRegex}, job_name_pattern : {NoRegex},
     page : 1..MaxPage, per_page : 0..MaxPerPage]

CallFilteredJobsPage ==
    /\ hud_call = NoCall
    /\ \E args \in PageArgs :
        /\ hud_call' = [op |-> "get_filtered_jobs", args |-> args]
        /\ hud_result' = get_filtered_jobs(hud_data, args)
    /\ UNCHANGED hud_data
    /\ Frame("hud")

InitPages ==
    /\ IdleExcept("hud")
    /\ hud_data \in PageGrids
    /\ hud_call = NoCall
    /\ hud_result = NoResult
NextPages == CallFilteredJobsPage
SpecPages == InitPages /\ [][NextPages]_vars

\* The jobs of pages p..last of the running query, in order.
RECURSIVE PagesFrom(_, _)
PagesFrom(p, last) ==
    IF p > last THEN <<>>
    ELSE get_filtered_jobs(hud_data, [hud_call.args EXCEPT !.page = p]).jobs
            \o PagesFrom(p + 1, last)
\* The jobs that pass the filters of the running query.
PassingJobs ==
    SelectSeq(enrich_hud_data(hud_data),
              LAMBDA job : FilteredJobsInclude(job, hud_call.args))

\* C16: get_filtered_jobs paginates over the filtered set: total_items is the
\* number of jobs passing the filters, total_pages is ceil(total_items /
\* per_page), a page holds at most per_page jobs, and pages 1..total_pages in
\* order are exactly the filtered list; with per_page = 0, total_pages is 0.
C16_PaginatesFilteredSet ==
    hud_call.op = "get_filtered_jobs" =>
        LET per_page == hud_call.args.per_page
            pagination == hud_result.pagination
        IN  /\ pagination.total_items = Len(PassingJobs)
            /\ Len(hud_result.jobs) <= per_page
            /\ per_page >= 1 =>
                /\ pagination.total_pages * per_page >= pagination.total_items
                /\ (pagination.total_pages - 1) * per_page < pagination.total_items
                /\ pagination.total_pages >= 0
                /\ PagesFrom(1, pagination.total_pages) = PassingJobs
            /\ per_page = 0 => pagination.total_pages = 0

\* The spec's example: seven items in pages of three make three pages, the
\* third holding the seventh item.
C16_Witness ==
    /\ hud_call.op = "get_filtered_jobs"
    /\ hud_call.args.status = "failure"
    /\ hud_call.args.per_page = 3 /\ hud_call.args.page = 3
    /\ Len(FirstJobs) = 7
    /\ hud_result.pagination.total_items = 7
    /\ hud_result.pagination.total_pages = 3
    /\ hud_result.jobs = <<PassingJobs[7]>>

\* ------------------------------------------------------------------------
\* parse_time_range (api/utils.py lines 8-65)
\* ------------------------------------------------------------------------
\* Time is counted in hours; a date is a day number and a time of day an
\* hour, so the ISO text of a datetime is "<day>T<hh>".
HoursPerDay == 24
TwoDigits(n) == IF n < 10 THEN <<"0">> \o IntText(n) ELSE IntText(n)
\* datetime.isoformat()
IsoFormat(t) == IntText(t \div HoursPerDay) \o <<"T">> \o TwoDigits(t % HoursPerDay)

IsDigits(text) == text # <<>> /\ \A i \in 1..Len(text) : IsDigit(text[i])
DigitValue(c) == CHOOSE d \in 0..9 : DigitChars[d + 1] = c
RECURSIVE DigitsValue(_)
DigitsValue(text) ==
    IF text = <<>> THEN 0
    ELSE 10 * DigitsValue(SubSeq(text, 1, Len(text) - 1)) + DigitValue(text[Len(text)])

\* int(text): surrounding blanks and a sign are accepted; Missing stands for
\* ValueError.
ParseInt(text) ==
    LET t == Strip(text)
    IN  IF t # <<>> /\ t[1] \in {"-", "+"} /\ IsDigits(Tail(t))
        THEN Some((IF t[1] = "-" THEN -1 ELSE 1) * DigitsValue(Tail(t)))
        ELSE IF IsDigits(t) THEN Some(DigitsValue(t))
        ELSE Missing

\* datetime.fromisoformat(text): a date, or a date and an hour; Missing stands
\* for ValueError.
FromIsoFormat(text) ==
    LET ts == {i \in 1..Len(text) : text[i] = "T"}
    IN  IF ts = {} THEN IF IsDigits(text) THEN Some(DigitsValue(text) * HoursPerDay)
                                          ELSE Missing
        ELSE LET i == SetMin(ts)
                 day == SubSeq(text, 1, i - 1)
                 hour == SubSeq(text, i + 1, Len(text))
             IN  IF IsDigits(day) /\ IsDigits(hour) /\ Len(hour) = 2
                    /\ DigitsValue(hour) < HoursPerDay
                 THEN Some(DigitsValue(day) * HoursPerDay + DigitsValue(hour))
                 ELSE Missing

EndsWith(text, c) == text # <<>> /\ text[Len(text)] = c
\* time_range[:-1]
DropLast(text) == SubSeq(text, 1, Len(text) - 1)
\* timedelta(days=n), timedelta(hours=n)
Days(n) == n * HoursPerDay
Hours(n) == n

EndClock_ReadAgain(now, later) == later
\* Lines 30, 36, 50, 58 and 64: the end of a range that ends now is the
\* reading of line 24, the one the start was computed from.
EndClock(now, later) == now

\* now is the reading of the clock at line 24; later is what the clock shows
\* by the time the result is built.
parse_time_range(time_range, now, later) ==
    IF EndsWith(time_range, "d")
    THEN LET days == ParseInt(DropLast(time_range))
         IN  IF days = Missing THEN Raised("ValueError")
             ELSE <<IsoFormat(now - Days(days[1])), IsoFormat(EndClock(now, later))>>
    ELSE IF EndsWith(time_range, "h")
    THEN LET hours == ParseInt(DropLast(time_range))
         IN  IF hours = Missing THEN Raised("ValueError")
             ELSE <<IsoFormat(now - Hours(hours[1])), IsoFormat(EndClock(now, later))>>
    ELSE IF \E i \in 1..Len(time_range) : time_range[i] = ":"
    THEN LET i == SetMin({j \in 1..Len(time_range) : time_range[j] = ":"})
             start_str == SubSeq(time_range, 1, i - 1)
             end_str == SubSeq(time_range, i + 1, Len(time_range))
             start == FromIsoFormat(start_str)
             end == FromIsoFormat(end_str)
         IN  IF start_str # <<>> /\ end_str # <<>>
             THEN IF start = Missing \/ end = Missing THEN Raised("ValueError")
                  ELSE <<IsoFormat(start[1]), IsoFormat(end[1])>>
             ELSE IF start_str # <<>>
             THEN IF start = Missing THEN Raised("ValueError")
                  ELSE <<IsoFormat(start[1]), IsoFormat(EndClock(now, later))>>
             ELSE IF end_str # <<>>
             THEN IF end = Missing THEN Raised("ValueError")
                  ELSE <<IsoFormat(now - Days(30)), IsoFormat(end[1])>>
             ELSE <<IsoFormat(now - Days(7)), IsoFormat(EndClock(now, later))>>
    ELSE <<IsoFormat(now - Days(7)), IsoFormat(EndClock(now, later))>>

\* Readings of the clock, in hours.
ClockReadings == {999, 1000, 1013}
TimeRanges ==
    {<<"7", "d">>,
     <<"1", "d">>,
     <<"0", "d">>,
     <<"-", "1", "d">>,
     <<" ", "2", "d">>,
     <<"3", "0", "d">>,
     <<"2", "4", "h">>,
     <<"2", "h">>,
     <<"0", "h">>,
     <<"-", "3", "h">>,
     <<"d">>,
     <<"h">>,
     <<"x", "d">>,
     <<"7", "d", "h">>,
     <<"1", ".", "5", "d">>,
     <<"a", "b", "c">>,
     <<>>,
     <<"7">>,
     <<"d", "7">>,
     <<"g", "a", "r", "b", "a", "g", "e", "-", "n", "o", "-", "c", "o", "l", "o", "n", "-", "n", "o", "-", "s", "u", "f", "f", "i", "x">>,
     <<"4", "1", ":", "4", "2">>,
     <<":", "4", "2">>,
     <<"4", "1", ":">>,
     <<":">>,
     <<"4", "x", ":", "4", "2">>,
     <<"4", "1", ":", "4", "2", "d">>,
     <<"4", "1", ":", "2", "h">>,
     <<"4", "1", "T", "0", "5", ":", "4", "2">>}

CallParseTimeRange ==
    /\ \E time_range \in TimeRanges, now \in ClockReadings, later \in 0..1 :
        /\ time_call' = [op |-> "parse_time_range", time_range |-> time_range,
                         now |-> now, later |-> now + later]
        /\ time_result' = parse_time_range(time_range, now, now + later)
    /\ Frame("time")

InitTime ==
    /\ IdleExcept("time")
    /\ TimeIdle
NextTime == CallParseTimeRange
SpecTime == InitTime /\ [][NextTime]_vars

TimeCalled == time_call.op = "parse_time_range"
\* str(n) for any integer n.
SignedText(n) == IF n < 0 THEN <<"-">> \o IntText(-n) ELSE IntText(n)
HasColon(text) == \E i \in 1..Len(text) : text[i] = ":"
\* The span, in hours, between the two bounds of a returned range.
SpanOf(range) == FromIsoFormat(range[2])[1] - FromIsoFormat(range[1])[1]

\* C17: parse_time_range tries the suffix 'd', then the suffix 'h', then ':',
\* then the default.  "{n}d" yields (now - n days, now), "{n}h" yields
\* (now - n hours, now), and an input of no recognized form yields
\* (now - 7 days, now); both bounds come from one reading of the clock, so
\* the span is exactly the one asked for.  An input with a 'd' or 'h' suffix
\* is never read as a date range.
C17_RelativeRanges ==
    TimeCalled =>
        LET text == time_call.time_range
            now == time_call.now
        IN  /\ \A n \in -3..30 :
                /\ text = SignedText(n) \o <<"d">> =>
                    /\ time_result = <<IsoFormat(now - n * 24), IsoFormat(now)>>
                    /\ SpanOf(time_result) = n * 24
                /\ text = SignedText(n) \o <<"h">> =>
                    /\ time_result = <<IsoFormat(now - n), IsoFormat(now)>>
                    /\ SpanOf(time_result) = n
            /\ (~EndsWith(text, "d") /\ ~EndsWith(text, "h") /\ ~HasColon(text)) =>
                    /\ time_result = <<IsoFormat(now - 7 * 24), IsoFormat(now)>>
                    /\ SpanOf(time_result) = 7 * 24
            /\ ((EndsWith(text, "d") \/ EndsWith(text, "h")) /\ HasColon(text)) =>
                    time_result = Raised("ValueError")

\* "7d" read while the clock moves on during the call.
C17_Witness ==
    /\ TimeCalled
    /\ time_call.time_range = <<"7", "d">>
    /\ time_call.now = 1013 /\ time_call.later = 1014
    /\ time_result = <<<<"3", "5", "T", "0", "5">>, <<"4", "2", "T", "0", "5">>>>

\* ------------------------------------------------------------------------
\* Query catalog: get_clickhouse_queries and get_clickhouse_query_parameters
\* (api/client.py lines 137-226)
\* ------------------------------------------------------------------------
\* Longest directory listing the catalog service answers with.
MaxCatalogItems == 2

\* Lines 172-192.
hardcoded_queries ==
    <<
      "master_commit_red", "queued_jobs", "disabled_test_historical",
      "unique_repos_in_runnercost", "job_duration_avg", "workflow_duration_avg",
      "master_commit_red_percent", "master_commit_red_jobs", "nightly_jobs_red",
      "nightly_jobs_red_by_name", "commit_jobs_query", "commit_jobs_batch_query",
      "flaky_tests", "disabled_tests", "tts_avg",
      "tts_percentile", "ttrs_percentiles", "queue_times_historical",
      "queue_times_historical_pct"
    >>

\* Entries of a GitHub "contents" listing: directories, a file, and entries
\* without a type or without a name.
Dir(name) == [type |-> Some("dir"), name |-> Some(name)]
CatalogItems ==
    {Dir("q1"), Dir("q2"), [type |-> Some("file"), name |-> Some("README.md")],
     [type |-> Missing, name |-> Some("q3")], [type |-> Some("dir"), name |-> Missing]}
\* Response bodies: not JSON, a JSON object (GitHub's error message), or a
\* JSON array of entries.
NotJson == [kind |-> "text"]
JsonObject(content) == [kind |-> "object", content |-> content]
JsonArray(items) == [kind |-> "array", items |-> items]
NoResponse == [status |-> 0, body |-> NotJson]
ListingResponses ==
    {NoResponse, [status |-> 404, body |-> JsonObject(Missing)],
     [status |-> 200, body |-> NotJson], [status |-> 200, body |-> JsonObject(Missing)]}
    \cup {[status |-> 200, body |-> JsonArray(items)] :
            items \in SeqsUpTo(CatalogItems, MaxCatalogItems)}

\* Lines 158-159 raise: no response, or a 4xx/5xx status.
CatalogRequestRaises(resp) == resp = NoResponse \/ resp.status >= 400

\* Lines 161-163: the names of the entries of type 'dir', up to the first
\* entry that makes the loop raise (KeyError on 'type' or 'name').
RECURSIVE DirNames(_, _)
DirNames(items, k) ==
    IF k > Len(items) THEN [raised |-> FALSE, names |-> <<>>]
    ELSE IF items[k].type = Missing THEN [raised |-> TRUE, names |-> <<>>]
    ELSE IF items[k].type # Some("dir") THEN DirNames(items, k + 1)
    ELSE IF items[k].name = Missing THEN [raised |-> TRUE, names |-> <<>>]
    ELSE LET rest == DirNames(items, k + 1)
         IN  [raised |-> rest.raised, names |-> <<items[k].name[1]>> \o rest.names]

\* The exception lines 158-163 end with, or "none".
DiscoveryError(resp) ==
    IF resp = NoResponse THEN "ConnectionError"
    ELSE IF resp.status >= 400 THEN "HTTPError"
    ELSE IF resp.body.kind = "text" THEN "JSONDecodeError"
    ELSE IF resp.body.kind = "object" THEN "TypeError"
    ELSE IF DirNames(resp.body.items, 1).raised THEN "KeyError"
    ELSE "none"

CaughtByHandler_RequestErrorsOnly(error) == error \in {"ConnectionError", "HTTPError"}
\* Lines 168 and 216: except Exception.
CaughtByHandler(error) == TRUE

CacheAfterFallback_Unchanged(cache) == cache
\* Line 194: the fallback list is stored in the cache.
CacheAfterFallback(cache) == Some(hardcoded_queries)

CacheHit_Always(use_cache, cache) == cache # Missing
\* Line 149.
CacheHit(use_cache, cache) == use_cache /\ cache # Missing

\* Lines 158-195 for one answer of the catalog service: how the call ends,
\* with what, and the cache it leaves.
ListingOutcome(resp, cache) ==
    LET error == DiscoveryError(resp)
        github_queries == IF error = "none" THEN DirNames(resp.body.items, 1).names
                          ELSE <<>>
    IN  IF error # "none" /\ ~CaughtByHandler(error)
        THEN [pc |-> "raised", result |-> Raised(error), cache |-> cache]
        ELSE IF github_queries # <<>>
        THEN [pc |-> "returned", result |-> github_queries, cache |-> Some(github_queries)]
        ELSE [pc |-> "returned", result |-> hardcoded_queries,
              cache |-> CacheAfterFallback(cache)]

\* Lines 149-150: the cache answers; otherwise line 158 issues the request.
GetClickhouseQueries ==
    /\ ch_pc \in {"idle", "returned", "raised"}
    /\ \E use_cache \in BOOLEAN :
        /\ ch_call' = [op |-> "get_clickhouse_queries", use_cache |-> use_cache,
                       response |-> NoResponse]
        /\ IF CacheHit(use_cache, ch_cache)
           THEN ch_pc' = "returned" /\ ch_result' = ch_cache[1]
           ELSE ch_pc' = "request" /\ ch_result' = NoResult
    /\ ch_requests' = 0
    /\ UNCHANGED ch_cache
    /\ UNCHANGED ch_callers
    /\ Frame("catalog")

\* Lines 158-195: the catalog service answered, or the request failed.
ListingResponds ==
    /\ ch_pc = "request"
    /\ ch_call.op = "get_clickhouse_queries"
    /\ \E resp \in ListingResponses :
        /\ ch_call' = [ch_call EXCEPT !.response = resp]
        /\ LET outcome == ListingOutcome(resp, ch_cache)
           IN  /\ ch_pc' = outcome.pc
               /\ ch_result' = outcome.result
               /\ ch_cache' = outcome.cache
    /\ ch_requests' = ch_requests + 1
    /\ UNCHANGED ch_callers
    /\ Frame("catalog")

\* The 'content' field of a GitHub file entry: text in base64, or a string
\* that is not base64.  The text is JSON for some value, or not JSON.
JsonText(value) == [kind |-> "json", value |-> value]
Base64(text) == [encoding |-> "base64", text |-> text]
NotBase64 == [encoding |-> "none", text |-> NotJson]
ParameterValues ==
    {[workflowId |-> 1], [startTime |-> <<"1", "T", "0", "0">>, timezone |-> "UTC"]}
ParametersResponses ==
    {NoResponse, [status |-> 404, body |-> JsonObject(Missing)],
     [status |-> 200, body |-> NotJson], [status |-> 200, body |-> JsonArray(<<>>)],
     [status |-> 200, body |-> JsonObject(Missing)],
     [status |-> 200, body |-> JsonObject(Some(NotBase64))],
     [status |-> 200, body |-> JsonObject(Some(Base64(NotJson)))]}
    \cup {[status |-> 200, body |-> JsonObject(Some(Base64(JsonText(value))))] :
            value \in ParameterValues}

\* The exception lines 209-215 end with, or "none".
ParametersError(resp) ==
    IF resp = NoResponse THEN "ConnectionError"
    ELSE IF resp.status >= 400 THEN "HTTPError"
    ELSE IF resp.body.kind = "text" THEN "JSONDecodeError"
    ELSE IF resp.body.kind = "array" THEN "TypeError"
    ELSE IF resp.body.content = Missing THEN "KeyError"
    ELSE IF resp.body.content[1].encoding # "base64" THEN "binascii.Error"
    ELSE IF resp.body.content[1].text.kind # "json" THEN "JSONDecodeError"
    ELSE "none"

\* Lines 221-226.
common_parameters(now) ==
    [startTime |-> IsoFormat(now - Days(7)), stopTime |-> IsoFormat(now),
     timezone |-> "America/Los_Angeles"]

QueryNames == {"q1", "flaky_tests"}

\* Lines 206-209: the request is about to be issued.
GetClickhouseQueryParameters ==
    /\ ch_pc \in {"idle", "returned", "raised"}
    /\ \E query_name \in QueryNames :
        ch_call' = [op |-> "get_clickhouse_query_parameters", query_name |-> query_name,
                    response |-> NoResponse]
    /\ ch_pc' = "request"
    /\ ch_result' = NoResult
    /\ ch_requests' = 0
    /\ UNCHANGED ch_cache
    /\ UNCHANGED ch_callers
    /\ Frame("catalog")

\* Lines 209-226: the catalog service answered, or the request failed; the
\* clock is read by the handler (line 221).
ParametersResponds ==
    /\ ch_pc = "request"
    /\ ch_call.op = "get_clickhouse_query_parameters"
    /\ \E resp \in ParametersResponses, now \in ClockReadings :
        /\ ch_call' = [op |-> ch_call.op, query_name |-> ch_call.query_name,
                       response |-> resp, now |-> now]
        /\ LET error == ParametersError(resp)
           IN  IF error = "none"
               THEN /\ ch_pc' = "returned"
                    /\ ch_result' = resp.body.content[1].text.value
               ELSE IF CaughtByHandler(error)
               THEN /\ ch_pc' = "returned"
                    /\ ch_result' = common_parameters(now)
               ELSE /\ ch_pc' = "raised"
                    /\ ch_result' = Raised(error)
    /\ ch_requests' = ch_requests + 1
    /\ UNCHANGED ch_cache
    /\ UNCHANGED ch_callers
    /\ Frame("catalog")

InitCatalog ==
    /\ IdleExcept("catalog")
    /\ CatalogIdle
NextCatalog ==
    \/ GetClickhouseQueries
    \/ ListingResponds
    \/ GetClickhouseQueryParameters
    \/ ParametersResponds
SpecCatalog == InitCatalog /\ [][NextCatalog]_vars

QueriesReturned == ch_pc = "returned" /\ ch_call.op = "get_clickhouse_queries"
ParametersReturned == ch_pc = "returned" /\ ch_call.op = "get_clickhouse_query_parameters"

\* C19: the query-list cache is populated only by a successful discovery: a
\* get_clickhouse_queries call that starts with an empty cache and whose
\* discovery fails (so that it returns the hardcoded list) leaves the cache
\* empty, and the next call with use_cache = true discovers again.
C19_FailedDiscoveryLeavesCacheUnpopulated ==
    [][(/\ ch_pc = "request"
        /\ ch_call.op = "get_clickhouse_queries"
        /\ ch_cache = Missing
        /\ ch_pc' = "returned"
        /\ DiscoveryError(ch_call'.response) # "none")
       => ch_cache' = Missing]_vars

\* C20: neither get_clickhouse_queries nor get_clickhouse_query_parameters
\* ever raises: a transport error, a non-2xx status or a malformed body of
\* the catalog request ends in the hardcoded query list, respectively the
\* default parameter set, and a call issues at most one catalog request.
C20_CatalogErrorsNeverSurface ==
    /\ ch_pc # "raised"
    /\ ch_requests <= 1
    /\ (QueriesReturned /\ ch_requests = 1 /\ DiscoveryError(ch_call.response) # "none")
        => ch_result = hardcoded_queries
    /\ (ParametersReturned /\ ParametersError(ch_call.response) # "none")
        => ch_result = common_parameters(ch_call.now)
C20_Witness ==
    /\ QueriesReturned
    /\ ch_requests = 1
    /\ DiscoveryError(ch_call.response) = "KeyError"
    /\ ch_result = hardcoded_queries

\* C26: once the cache is populated, a get_clickhouse_queries call with
\* use_cache = true returns the cached list without a catalog request and
\* without changing the cache; a call with use_cache = false issues a catalog
\* request whatever the cache holds and leaves the cache equal to the list it
\* returns.
C26_CacheReusedUnlessOptedOut ==
    /\ [](QueriesReturned =>
            /\ ch_cache = Some(ch_result)
            /\ ~ch_call.use_cache => ch_requests = 1)
    /\ [][(ch_pc # "request" /\ ch_call'.op = "get_clickhouse_queries")
            => IF ch_call'.use_cache /\ ch_cache # Missing
               THEN /\ ch_pc' = "returned" /\ ch_requests' = 0
                    /\ ch_result' = ch_cache[1] /\ ch_cache' = ch_cache
               ELSE ch_pc' = "request" /\ ch_cache' = ch_cache]_vars
\* A later call with use_cache = true returns the list an earlier discovery
\* cached, without a request.
C26_Witness ==
    /\ QueriesReturned /\ ch_call.use_cache
    /\ ch_requests = 0
    /\ ch_result = <<"q1", "q2">> /\ ch_cache = Some(<<"q1", "q2">>)

\* ------------------------------------------------------------------------
\* filter_log_sections: how sections close
\* ------------------------------------------------------------------------
\* The lines of section k's content, and the last file line the section
\* took: a truncated section also took the line at which it was cut.
SectionLines(k) == SplitLines(log_result.sections[k].content)
SectionLast(k) == log_result.sections[k].start_line + Len(SectionLines(k)) - 1

\* C23: a section with truncated = false was closed either by a line that
\* matches end_pattern, arriving while the section was open and below
\* max_lines, which is then the last line of its content, or by the end of
\* the file, with every line accumulated so far and no marker; a section open
\* at the end of the file is emitted; section_count is the number of
\* sections, and start_line is strictly increasing.
C23_UntruncatedSectionsCloseTwoWays ==
    FilterSucceeded =>
        LET m == log_call.args.max_lines
            n == Len(log_files.lines)
            sections == log_result.sections
        IN  /\ log_result.section_count = Len(sections)
            /\ \A k \in 1..(Len(sections) - 1) :
                sections[k].start_line < sections[k + 1].start_line
            /\ \A k \in 1..Len(sections) :
                ~sections[k].truncated =>
                    LET i == sections[k].start_line
                        e == SectionLast(k)
                    IN  /\ i >= 1 /\ e <= n
                        /\ SectionLines(k) = FileLines(i, e)
                        /\ Len(SectionLines(k)) <= m
                        /\ \A j \in (i + 1)..(e - 1) : ~EndMatches(j)
                        /\ (e > i /\ EndMatches(e)) \/ (e = n /\ k = Len(sections))
            /\ \A i \in 1..n :
                (StartMatches(i) /\ \A j \in (i + 1)..n : ~EndMatches(j))
                    => \E k \in 1..Len(sections) :
                        sections[k].start_line <= i /\ i <= SectionLast(k)

\* One section closed by an end line and one by the end of the file.
C23_Witness ==
    /\ FilterSucceeded
    /\ log_call.args.max_lines = 3 /\ log_call.args.end_pattern = <<"E">>
    /\ log_files.lines = <<L_start, L_plain, L_end, L_start, L_plain>>
    /\ log_result.section_count = 2
    /\ ~log_result.sections[1].truncated /\ ~log_result.sections[2].truncated
    /\ SectionLines(1) = <<<<"S">>, <<"x">>, <<"E">>>>
    /\ SectionLines(2) = <<<<"S">>, <<"x">>>>

\* The number of file lines in section k's content: the marker of a truncated
\* section is not one.
SectionFileLines(k) ==
    IF log_result.sections[k].truncated THEN Len(SectionLines(k)) - 1
    ELSE Len(SectionLines(k))

\* C28: no start match is lost when a section is closed by truncation: every
\* file line that matches start_pattern is in the content of some returned
\* section, as its first line or as a later line of a section already open.
C28_NoStartMatchLost ==
    FilterSucceeded =>
        \A i \in 1..Len(log_files.lines) :
            StartMatches(i) =>
                \E k \in 1..Len(log_result.sections) :
                    LET first == log_result.sections[k].start_line
                    IN  /\ first <= i /\ i < first + SectionFileLines(k)
                        /\ SectionLines(k)[i - first + 1] = Rstrip(log_files.lines[i])

\* ------------------------------------------------------------------------
\* HUD toolkit: get_workflow_summary durations (hud_data.py lines 541-649)
\* ------------------------------------------------------------------------
\* Longest job list drawn for the duration summary.
MaxDurationJobs == 2

\* A quotient a / b of the code's float division, kept exact.
Quotient(a, b) == [num |-> a, den |-> b]
Zero == Quotient(0, 1)

\* Lines 610-613: what one job adds to its workflow's total_duration.
AddedDuration(job) ==
    LET duration == Get(job, "durationS", 0)
    IN  IF duration # 0 /\ duration > 0 THEN duration ELSE 0

\* Lines 569-613: total_duration of the workflow, from job i on.
RECURSIVE WorkflowTotalDuration(_, _, _)
WorkflowTotalDuration(jobs, i, workflow_id) ==
    IF i > Len(jobs) THEN 0
    ELSE IF WorkflowOf(jobs[i]) # Some(workflow_id)
    THEN WorkflowTotalDuration(jobs, i + 1, workflow_id)
    ELSE AddedDuration(jobs[i]) + WorkflowTotalDuration(jobs, i + 1, workflow_id)

\* Lines 624-632.
WorkflowAverages(success, failure, total_duration) ==
    LET completed_jobs == success + failure
    IN  IF completed_jobs > 0
        THEN [avg_duration |-> Quotient(total_duration, completed_jobs),
              success_rate |-> Quotient(success * 100, completed_jobs)]
        ELSE [avg_duration |-> Zero, success_rate |-> Zero]

\* get_workflow_summary with the duration fields of each workflow.
get_workflow_durations(data) ==
    LET enriched_jobs == enrich_hud_data(data)
        counts == get_workflow_summary(data).workflows
    IN  [workflows |->
            [workflow_id \in DOMAIN counts |->
                LET total_duration == WorkflowTotalDuration(enriched_jobs, 1, workflow_id)
                    averages == WorkflowAverages(counts[workflow_id].success,
                                                 counts[workflow_id].failure, total_duration)
                IN  [name |-> workflow_id,
                     success |-> counts[workflow_id].success,
                     failure |-> counts[workflow_id].failure,
                     total_duration |-> total_duration,
                     avg_duration |-> averages.avg_duration,
                     success_rate |-> averages.success_rate]]]

\* Jobs with a duration: finished, cancelled and running ones, of two
\* workflows, with durationS absent, zero or positive.
DurationJobs ==
    {[id |-> Missing, name |-> Missing, status |-> Some(x[1]), conclusion |-> x[2],
      failureLines |-> Missing, htmlUrl |-> Some(url), durationS |-> d] :
        x \in {<<"completed", Some("success")>>, <<"completed", Some("failure")>>,
               <<"completed", Some("cancelled")>>, <<"completed", Some("skipped")>>,
               <<"in_progress", Missing>>},
        url \in {UrlLong, UrlOther},
        d \in {Missing, Some(0), Some(10), Some(30)}}
DurationGrids ==
    {[shaGrid |-> <<Commit(<<"a", "1">>, jobs)>>, jobNames |-> JobNames] :
        jobs \in UNION {[1..n -> DurationJobs] : n \in 0..MaxDurationJobs}}

CallWorkflowDurations ==
    /\ hud_call = NoCall
    /\ hud_call' = [op |-> "get_workflow_summary"]
    /\ hud_result' = get_workflow_durations(hud_data)
    /\ UNCHANGED hud_data
    /\ Frame("hud")

InitDurations ==
    /\ IdleExcept("hud")
    /\ hud_data \in DurationGrids
    /\ hud_call = NoCall
    /\ hud_result = NoResult
NextDurations == CallWorkflowDurations
SpecDurations == InitDurations /\ [][NextDurations]_vars

\* The completed jobs of a workflow: conclusion success or failure.
IsCompleted(job) == Get(job, "conclusion", "unknown") \in {"success", "failure"}
RECURSIVE CompletedDuration(_, _, _)
CompletedDuration(jobs, i, workflow_id) ==
    IF i > Len(jobs) THEN 0
    ELSE (IF WorkflowOf(jobs[i]) = Some(workflow_id) /\ IsCompleted(jobs[i])
          THEN Get(jobs[i], "durationS", 0) ELSE 0)
         + CompletedDuration(jobs, i + 1, workflow_id)

\* C24: each workflow's total_duration is the sum of durationS over its
\* completed jobs only (conclusion success or failure), so avg_duration is
\* the mean duration of the completed jobs; avg_duration and success_rate are
\* 0 when there is no completed job.
C24_DurationOverCompletedJobs ==
    hud_call # NoCall =>
        LET jobs == hud_data.shaGrid[1].jobs[1]
            workflows == hud_result.workflows
        IN  \A w \in DOMAIN workflows :
                LET completed == workflows[w].success + workflows[w].failure
                IN  /\ workflows[w].total_duration = CompletedDuration(jobs, 1, w)
                    /\ completed > 0 =>
                        workflows[w].avg_duration
                            = Quotient(CompletedDuration(jobs, 1, w), completed)
                    /\ completed = 0 =>
                        /\ workflows[w].avg_duration = Zero
                        /\ workflows[w].success_rate = Zero

\* ------------------------------------------------------------------------
\* extract_test_results (log_analysis/tools.py lines 198-310)
\* ------------------------------------------------------------------------
\* Most failure lines, and most lines after them, in a drawn log file.
MaxFailLines == 22
MaxTailLines == 6
\* Line 275: failed tests kept.
MaxFailedTests == 20
\* Line 280: lines of context per failed test.
ContextLines == 5

\* \w on ASCII text.
WordChars ==
  {
    "a", "b", "c", "d", "e", "f", "g", "h", "i", "j", "k", "l", "m", "n", "o", "p",
    "q", "r", "s", "t", "u", "v", "w", "x", "y", "z", "A", "B", "C", "D", "E", "F",
    "G", "H", "I", "J", "K", "L", "M", "N", "O", "P", "Q", "R", "S", "T", "U", "V",
    "W", "X", "Y", "Z", "0", "1", "2", "3", "4", "5", "6", "7", "8", "9", "_"
  }

\* Lines 236-242.  The group of the last two is "test" and the word
\* characters after it; the model captures the latter.
pytest_summary ==
    [ci |-> FALSE,
     alts |-> << << OneOrMore({"="}, FALSE), Lit(<<" ">>), Digits,
                    Lit(<<" ", "f", "a", "i", "l", "e", "d", ",", " ">>), Digits,
                    Lit(<<" ", "p", "a", "s", "s", "e", "d", ",", " ">>), Digits,
                    Lit(<<" ", "s", "k", "i", "p", "p", "e", "d">>) >> >>]
unittest_summary ==
    [ci |-> FALSE,
     alts |-> << << Lit(<<"R", "a", "n", " ">>), Digits,
                    Lit(<<" ", "t", "e", "s", "t", "s", " ", "i", "n", " ">>),
                    OneOrMore({c \in WordChars : IsDigit(c)} \cup {"."}, TRUE),
                    Lit(<<"s">>) >> >>]
test_failure ==
    [ci |-> FALSE,
     alts |-> << << Lit(<<"F", "A", "I", "L", ":", " ", "t", "e", "s", "t">>),
                    OneOrMore(WordChars, TRUE) >> >>]
error_failure ==
    [ci |-> FALSE,
     alts |-> << << Lit(<<"E", "R", "R", "O", "R", ":", " ", "t", "e", "s", "t">>),
                    OneOrMore(WordChars, TRUE) >> >>]

\* Lines 222-234.
NoTestResults ==
    [test_counts |-> [total |-> 0, passed |-> 0, failed |-> 0, skipped |-> 0],
     failed_tests |-> <<>>, duration |-> Null]

\* Lines 252-261.
PytestSummary(res, line) ==
    LET found == RegexSearch(pytest_summary, line)
    IN  IF found = Missing THEN res
        ELSE LET failed == DigitsValue(found[1][1])
                 passed == DigitsValue(found[1][2])
                 skipped == DigitsValue(found[1][3])
             IN  [res EXCEPT !.test_counts =
                     [total |-> failed + passed + skipped, passed |-> passed,
                      failed |-> failed, skipped |-> skipped]]

\* Lines 264-267.
UnittestSummary(res, line) ==
    LET found == RegexSearch(unittest_summary, line)
    IN  IF found = Missing THEN res
        ELSE [res EXCEPT !.test_counts.total = DigitsValue(found[1][1]),
                         !.duration = [kind |-> "str", text |-> found[1][2]]]

\* Lines 279-282: range(line_num, min(line_num + 5, len(lines) + 1)) indexes
\* lines[i-1], so the first line taken is the line of the failure itself.
FailureContext(lines, line_num) ==
    [k \in 1..(Min(line_num + ContextLines, Len(lines) + 1) - line_num) |->
        Strip(lines[line_num + k - 1])]

\* Line 275: len(failed_tests) < 20
FailedTestsFull(failed_tests) == Len(failed_tests) >= MaxFailedTests

\* Lines 273-288, for one of the two failure patterns.
FailureDetails(res, regex, line, line_num, lines) ==
    LET found == RegexSearch(regex, line)
    IN  IF found = Missing \/ FailedTestsFull(res.failed_tests) THEN res
        ELSE [res EXCEPT !.failed_tests =
                 Append(@, [test_name |-> <<"t", "e", "s", "t">> \o found[1][1],
                            line_num |-> line_num,
                            context |-> FailureContext(lines, line_num)])]

\* Lines 248-288: the loop from line line_num on.
RECURSIVE ScanTestLines(_, _, _)
ScanTestLines(res, line_num, lines) ==
    IF line_num > Len(lines) THEN res
    ELSE LET line == Strip(lines[line_num])
             counted == UnittestSummary(PytestSummary(res, line), line)
             failed == FailureDetails(counted, test_failure, line, line_num, lines)
         IN  ScanTestLines(FailureDetails(failed, error_failure, line, line_num, lines),
                           line_num + 1, lines)

\* readable is FALSE when opening or reading the file fails (line 246), which
\* lines 303-310 report.
extract_test_results(args, readable) ==
    IF ~PathExists(args.file_path) THEN FileNotFound(args.file_path)
    ELSE IF ~readable THEN AnalysisError(args.file_path, "OSError")
    ELSE LET res == ScanTestLines(NoTestResults, 1, log_files.lines)
         IN  [success |-> TRUE, file_path |-> args.file_path,
              test_counts |-> res.test_counts, failed_tests |-> res.failed_tests,
              duration |-> res.duration]

\* Lines of the drawn log files.
T_fail == <<
    "F", "A", "I", "L", ":", " ", "t", "e", "s", "t", "_", "a"
  >>
T_error == <<
    " ", " ", "E", "R", "R", "O", "R", ":", " ", "t", "e", "s", "t", "_", "b", " ",
    "\n"
  >>
T_both == <<
    "F", "A", "I", "L", ":", " ", "t", "e", "s", "t", "_", "a", " ", "E", "R", "R",
    "O", "R", ":", " ", "t", "e", "s", "t", "_", "b"
  >>
T_plain == <<"o", "k", "\n">>
T_pytest == <<
    "=", "=", "=", " ", "1", " ", "f", "a", "i", "l", "e", "d", ",", " ", "2", " ",
    "p", "a", "s", "s", "e", "d", ",", " ", "0", " ", "s", "k", "i", "p", "p", "e",
    "d", " ", "i", "n", " ", "0", ".", "5", "s", " ", "=", "=", "="
  >>
T_unittest == <<
    "R", "a", "n", " ", "1", "2", " ", "t", "e", "s", "t", "s", " ", "i", "n", " ",
    "0", ".", "5", "s"
  >>
\* A file: an optional first line, n failure lines (FAIL and ERROR lines in
\* turn, the first one possibly naming two tests), then plain lines.
TestFile(head, n, both, tail) ==
    head \o [i \in 1..n |-> IF i = 1 /\ both THEN T_both
                            ELSE IF i % 2 = 1 THEN T_fail ELSE T_error]
         \o [k \in 1..tail |-> T_plain]
TestFiles ==
    {TestFile(head, n, both, tail) :
        head \in {<<>>, <<T_pytest>>, <<T_unittest>>, <<T_plain>>},
        n \in 0..MaxFailLines, both \in BOOLEAN, tail \in 0..MaxTailLines}

CallExtractTestResults ==
    /\ log_call = NoCall
    /\ \E file_path \in {LogPath, MissingPath}, readable \in BOOLEAN :
        /\ log_call' = [op |-> "extract_test_results",
                        args |-> [file_path |-> file_path], readable |-> readable]
        /\ log_result' = extract_test_results([file_path |-> file_path], readable)
    /\ UNCHANGED log_files
    /\ Frame("log")

InitTests ==
    /\ IdleExcept("log")
    /\ log_files \in [path : {LogPath}, lines : TestFiles]
    /\ log_call = NoCall
    /\ log_result = NoResult
NextTests == CallExtractTestResults
SpecTests == InitTests /\ [][NextTests]_vars

TestsExtracted == log_call.op = "extract_test_results" /\ log_result.success

\* C25: at most 20 failed-test entries are recorded, in line order, and the
\* context of each is made of the up to 5 lines after the matching line,
\* clipped at the end of the file: a failure on the last line has an empty
\* context.
C25_ContextFollowsFailureLine ==
    TestsExtracted =>
        LET failed_tests == log_result.failed_tests
            lines == log_files.lines
        IN  /\ Len(failed_tests) <= MaxFailedTests
            /\ \A k \in 1..(Len(failed_tests) - 1) :
                failed_tests[k].line_num <= failed_tests[k + 1].line_num
            /\ \A k \in 1..Len(failed_tests) :
                LET line_num == failed_tests[k].line_num
                    last == Min(line_num + ContextLines, Len(lines))
                IN  failed_tests[k].context
                        = [j \in 1..(last - line_num) |-> Strip(lines[line_num + j])]

\* ------------------------------------------------------------------------
\* Two get_clickhouse_queries calls side by side on one client
\* ------------------------------------------------------------------------
\* Each call runs lines 149-158 up to the catalog request, waits for the
\* answer, and then runs lines 159-195; the other call can run in between.
\* Nothing else of the client is shared but the cache.
Callers == {1, 2}
CallerIdle == [pc |-> "idle", use_cache |-> FALSE, requests |-> 0,
               response |-> NoResponse, result |-> NoResult]

\* Lines 149-158 of one caller.
CallerStarts(c) ==
    /\ ch_callers[c].pc = "idle"
    /\ \E use_cache \in BOOLEAN :
        ch_callers' =
            [ch_callers EXCEPT ![c] =
                IF CacheHit(use_cache, ch_cache)
                THEN [@ EXCEPT !.pc = "returned", !.use_cache = use_cache,
                               !.result = ch_cache[1]]
                ELSE [@ EXCEPT !.pc = "request", !.use_cache = use_cache]]
    /\ UNCHANGED <<ch_cache, ch_call, ch_requests, ch_pc, ch_result>>
    /\ Frame("catalog")

\* Lines 158-195 of one caller: its request is answered.
CallerAnswered(c) ==
    /\ ch_callers[c].pc = "request"
    /\ \E resp \in ListingResponses :
        LET outcome == ListingOutcome(resp, ch_cache)
        IN  /\ ch_callers' =
                [ch_callers EXCEPT ![c] =
                    [@ EXCEPT !.pc = outcome.pc, !.requests = @ + 1,
                              !.response = resp, !.result = outcome.result]]
            /\ ch_cache' = outcome.cache
    /\ UNCHANGED <<ch_call, ch_requests, ch_pc, ch_result>>
    /\ Frame("catalog")

InitRace ==
    /\ IdleExcept("catalog")
    /\ ch_cache \in {Missing, Some(<<"q1">>), Some(hardcoded_queries)}
    /\ ch_call = NoCall
    /\ ch_requests = 0
    /\ ch_pc = "idle"
    /\ ch_result = NoResult
    /\ ch_callers = [c \in Callers |-> CallerIdle]
NextRace == \E c \in Callers : CallerStarts(c) \/ CallerAnswered(c)
SpecRace == InitRace /\ [][NextRace]_vars

BothReturned == ch_callers # <<>> /\ \A c \in Callers : ch_callers[c].pc = "returned"
\* A list is complete: the hardcoded list, or every directory of a listing.
IsCompleteList(c) ==
    \/ ch_callers[c].result = hardcoded_queries
    \/ \E resp \in ListingResponses :
        /\ DiscoveryError(resp) = "none"
        /\ ch_callers[c].result = DirNames(resp.body.items, 1).names

\* C27 (as stated): when two calls run side by side, both return a complete
\* list, the cache afterwards is the list one of them returned, and the two
\* return the same list.
C27_RacingCallsReturnSameList ==
    BothReturned =>
        /\ \A c \in Callers : IsCompleteList(c)
        /\ \E c \in Callers : ch_cache = Some(ch_callers[c].result)
        /\ ch_callers[1].result = ch_callers[2].result

\* C27 (amended): when two calls run side by side, neither raises, both
\* return a complete list and the cache afterwards is the list one of them
\* returned; the two return the same list when the catalog service gave both
\* requests the same answer, and can return different lists when it did not.
C27_RacingCallsAgreeOnSameAnswer ==
    /\ ch_callers # <<>> => \A c \in Callers : ch_callers[c].pc # "raised"
    /\ BothReturned =>
        /\ \A c \in Callers : IsCompleteList(c)
        /\ \E c \in Callers : ch_cache = Some(ch_callers[c].result)
        /\ (/\ \A c \in Callers : ch_callers[c].requests = 1
            /\ ch_callers[1].response = ch_callers[2].response)
                => ch_callers[1].result = ch_callers[2].result
\* Both calls asked for the cache, found it empty and issued a request; one
\* request failed and the other found a directory.
C27_Witness ==
    /\ BothReturned
    /\ \A c \in Callers : ch_callers[c].use_cache /\ ch_callers[c].requests = 1
    /\ ch_callers[1].result = hardcoded_queries
    /\ ch_callers[2].result = <<"q1">>
    /\ ch_cache = Some(<<"q1">>)

\* ------------------------------------------------------------------------
\* The request get_hud_data builds (api/client.py lines 100-112)
\* ------------------------------------------------------------------------
\* str(value) of Python for None, True and False.
PyStr(value) ==
    IF value = Missing THEN <<"N", "o", "n", "e">>
    ELSE IF value[1] THEN <<"T", "r", "u", "e">>
    ELSE <<"F", "a", "l", "s", "e">>

\* Line 104: the per_page sent when the caller's is unset or below 1.
ClientDefaultPerPage == 20

\* Lines 100-109: the page segment of the endpoint and the query parameters.
get_hud_data(per_page, merge_lf, page) ==
    [page |-> IF page = Missing \/ page[1] < 1 THEN 1 ELSE page[1],
     params |->
        [per_page |-> IF per_page = Missing \/ per_page[1] < 1
                      THEN ClientDefaultPerPage ELSE per_page[1],
         mergeLF |-> LowerText(PyStr(merge_lf))]]

\* Largest page and per_page a caller passes; the smallest is -1.
MaxRequestPage == 3

\* A caller invokes the client's get_hud_data directly, each argument unset
\* or set.
CallGetHudData ==
    /\ hud_call = NoCall
    /\ \E per_page \in Options(-1..MaxRequestPage), page \in Options(-1..MaxRequestPage),
          merge_lf \in Options(BOOLEAN) :
        /\ hud_call' = [op |-> "api.get_hud_data",
                        args |-> [per_page |-> per_page, merge_lf |-> merge_lf,
                                  page |-> page]]
        /\ hud_result' = [request |-> get_hud_data(per_page, merge_lf, page)]
    /\ UNCHANGED hud_data
    /\ Frame("hud")

\* tools/hud_data.py lines 146-156: get_commit_summary asks for one item and
\* returns the first grid entry without its jobs.
CallCommitSummary ==
    /\ hud_call = NoCall
    /\ hud_call' = [op |-> "get_commit_summary",
                    args |-> [per_page |-> Some(1), merge_lf |-> Missing,
                              page |-> Missing]]
    /\ hud_result' =
          [request |-> get_hud_data(Some(1), Missing, Missing),
           summary |->
              IF Len(hud_data.shaGrid) > 0
              THEN LET commit_info == hud_data.shaGrid[1]
                   IN  Some([k \in DOMAIN commit_info \ {"jobs"} |-> commit_info[k]])
              ELSE Missing]
    /\ UNCHANGED hud_data
    /\ Frame("hud")

InitRequests ==
    /\ IdleExcept("hud")
    /\ hud_data \in {[shaGrid |-> grid, jobNames |-> JobNames] :
                        grid \in {<<>>, <<Commit(<<"a", "1">>, <<>>)>>}}
    /\ hud_call = NoCall
    /\ hud_result = NoResult
NextRequests == CallGetHudData \/ CallCommitSummary
SpecRequests == InitRequests /\ [][NextRequests]_vars

\* C30: every request get_hud_data issues, whatever the caller passed (unset,
\* zero and negative values included), has a page segment of at least 1, a
\* per_page parameter of at least 1 and a mergeLF parameter that is "true" or
\* "false".
C30_RequestsWellFormed ==
    hud_call # NoCall =>
        LET request == hud_result.request
        IN  /\ request.page >= 1
            /\ request.params.per_page >= 1
            /\ request.params.mergeLF \in {<<"t", "r", "u", "e">>,
                                            <<"f", "a", "l", "s", "e">>}

====
